---- MODULE Spec2Model ----
(***************************************************************************)
(* Model of the sort worker of the splat viewer                            *)
(* (src/src/viewer/sort-worker.worker.ts): the worker-global state, the    *)
(* three inbound message handlers, the zero-delay timer of throttledSort   *)
(* and the depth sort of runSort.                                          *)
(*                                                                         *)
(* Numbers.  Matrix entries and positions are floats in the program.  The  *)
(* model uses fixed point: a forward-axis entry a stands for a / AxisDen   *)
(* and a position coordinate p for p / PosDen.  Both denominators are      *)
(* powers of two, so every modelled value is exactly representable and     *)
(* every product and sum below is exact in the program's arithmetic too.   *)
(* The one inexact float operation of runSort, the division                *)
(* 65535 / range followed by a multiplication, is modelled as the exact    *)
(* quotient; float rounding is monotone, so order properties carry over.   *)
(* Magnitudes stay far below 2^31, where `| 0` is plain truncation.        *)
(***************************************************************************)
EXTENDS Integers, Sequences, FiniteSets, TLC

\* ------------------------------------------------------------------ bounds
MaxMsgs == 4            \* inbound messages per behaviour
MaxChunks == 3          \* chunks the response body delivers

\* ------------------------------------------------------- program constants
ROW_BYTES == 32         \* 3*4 + 3*4 + 4 + 4
MinProjLen == 16        \* proj.length < 16 is rejected
DepthScale == 4096      \* fixed-point factor of the depth key
BucketMax == 65535      \* 256 * 256 - 1
SkipTolInv == 100       \* Math.abs(dot - 1) < 0.01  ==  100 * |dot - 1| < 1

\* --------------------------------------------------------- fixed-point units
AxisDen == 2 ^ 3
PosDen == 2 ^ 13

\* ------------------------------------------------------------------- inputs
\* An ArrayBuffer: its byte length and the position floats (words 0..2) of
\* every 32-byte row whose position words lie inside the buffer.
NullBuffer == [byteLength |-> -1, pts |-> <<>>]

IsNull(buf) == buf.byteLength < 0

BufEmpty == [byteLength |-> 0, pts |-> <<>>]
BufPair == [byteLength |-> 64, pts |-> << <<0, 0, 48>>, <<0, 0, -32>> >>]
BufSame == [byteLength |-> 96,
            pts |-> << <<0, 16, 32>>, <<0, 16, 32>>, <<0, 16, 32>> >>]
BufClose == [byteLength |-> 128,
             pts |-> << <<16, 0, 640>>, <<0, 0, 0>>, <<0, 0, 1>>, <<8, 0, -17>> >>]
BufOdd == [byteLength |-> 33, pts |-> << <<0, 0, 48>> >>]

\* The buffers load-canonical messages carry.
LoadBuffers == {BufEmpty, BufPair, BufSame, BufClose, BufOdd}

Rows(buf) == buf.byteLength \div ROW_BYTES

\* vertexCount values a load-canonical message carries for a buffer: the
\* main side's floor(byteLength / 32), and for one buffer a shorter prefix
\* (streaming) and a count larger than the buffer holds.
VertexCounts(buf) ==
  {Rows(buf)} \cup (IF buf = BufPair THEN {1, 3} ELSE {})
              \cup (IF buf = BufSame THEN {2} ELSE {})

\* Forward axes (matrix entries 2, 6, 10), in units of 1 / AxisDen.
Axes == { <<0, 0, 8>>, <<0, 0, 16>>, <<8, 0, 8>>, <<0, 0, -8>> }

\* The matrices view-update messages carry: 16 entries, or too few.
ViewMatrices ==
  {[len |-> 16, axis |-> a] : a \in Axes} \cup {[len |-> 4, axis |-> <<0, 0, 8>>]}

NoAxis == <<0, 0, 0>>
EmptyProj == [len |-> 0, axis |-> NoAxis]

\* --------------------------------------------------------------- .ply files
\* A .ply file as the decoder sees it:
\*   term    byte offset of the first "end_header\n", -1 when it has none
\*   lines   the header lines before the terminator
\*   chunks  the rows of the chunk table (compressed form)
\*   rows    the vertex rows that lie inside the file, each a record of the
\*           declared properties
\* Property values: x, y, z in units of 1 / PosDen; scale_k (log scale),
\* opacity (logit), rot_k and f_dc_k are whole numbers; red, green, blue are
\* bytes.  Derived reals (Math.exp, the sigmoid, colours) are in thousandths.
HeaderWindow == 10240   \* ubuf.slice(0, 1024 * 10)
HeaderEndLen == 11      \* 'end_header\n'.length
Milli == 10 ^ 3

Element(name, count) ==
  [kind |-> "element", name |-> name, count |-> count, type |-> ""]
Property(type, name) ==
  [kind |-> "property", name |-> name, count |-> 0, type |-> type]
OtherLine == [kind |-> "other", name |-> "", count |-> 0, type |-> ""]

\* header.indexOf('end_header\n') on the decoded first HeaderWindow bytes.
HeaderEndIndexUnbounded(file) == file.term

HeaderEndIndex(file) ==
  IF file.term >= 0 /\ file.term + HeaderEndLen <= HeaderWindow
  THEN file.term ELSE -1

\* The loop over headerLines: the elements in order, each with the property
\* lines that follow it; property lines before any element are dropped.
RECURSIVE ParseLines(_, _, _)
ParseLines(lines, i, elements) ==
  IF i > Len(lines) THEN elements
  ELSE LET line == lines[i]
           n == Len(elements)
       IN IF line.kind = "element"
          THEN ParseLines(lines, i + 1,
                 Append(elements, [name |-> line.name, count |-> line.count,
                                   properties |-> <<>>]))
          ELSE IF line.kind = "property" /\ n > 0
          THEN ParseLines(lines, i + 1,
                 [elements EXCEPT ![n].properties =
                    Append(@, [type |-> line.type, name |-> line.name])])
          ELSE ParseLines(lines, i + 1, elements)

\* elements.find((element) => element.name === name): its index, 0 if none.
FindElement(elements, name) ==
  LET hit == {k \in DOMAIN elements : elements[k].name = name}
  IN IF hit = {} THEN 0 ELSE CHOOSE k \in hit : \A h \in hit : k <= h

\* types[prop] is set: the vertex element declares the property.
HasType(el, prop) ==
  \E k \in DOMAIN el.properties : el.properties[k].name = prop

\* ------------------------------------------------------------ number helpers
\* Conversion of n / d (d > 0) to a Uint8ClampedArray entry: round to the
\* nearest integer, ties to even, then clamp to 0 .. 255.
RoundHalfEven(n, d) ==
  LET q == n \div d
      r == n % d
  IN IF 2 * r < d THEN q
     ELSE IF 2 * r > d THEN q + 1
     ELSE IF q % 2 = 0 THEN q ELSE q + 1

\* Math.round(n / d), d > 0: ties go up.
RoundHalfUp(n, d) == (2 * n + d) \div (2 * d)

Clamp(lo, hi, v) == IF v < lo THEN lo ELSE IF v > hi THEN hi ELSE v

ToUint8Clamped(n, d) == Clamp(0, 255, RoundHalfEven(n, d))

\* clamp255(n / d)
Clamp255(n, d) == Clamp(0, 255, RoundHalfUp(n, d))

\* Math.exp at the whole numbers -3 .. 3, in thousandths.
ExpTable ==
  [e \in -3 .. 3 |->
     CASE e = -3 -> 50 [] e = -2 -> 135 [] e = -1 -> 368 [] e = 0 -> 1000
       [] e = 1 -> 2718 [] e = 2 -> 7389 [] e = 3 -> 20086]

\* Math.exp(v / 1000) in thousandths, -3000 <= v <= 3000: the table value at
\* a whole number, the chord between the two neighbours elsewhere.
Exp(v) ==
  LET e == v \div Milli
      f == v % Milli
  IN IF f = 0 THEN ExpTable[e]
     ELSE ExpTable[e] + RoundHalfUp((ExpTable[e + 1] - ExpTable[e]) * f, Milli)

\* The product of two values in thousandths.
Mul(a, b) == RoundHalfUp(a * b, Milli)

\* 1 / (1 + Math.exp(-opacity)) in thousandths, opacity a whole number.
Sigmoid(opacity) == RoundHalfUp(Milli * Milli, Milli + Exp(-opacity * Milli))

\* Math.sqrt of a perfect square.
Sqrt(s) == CHOOSE k \in 0 .. s : k * k = s

\* floor(Math.sqrt(x))
SqrtFloor(x) == CHOOSE k \in 0 .. Milli : k * k <= x /\ x < (k + 1) * (k + 1)

\* --------------------------------------------------- processStandardPlyBuffer
SH_C0 == 282095         \* shC0 = 0.28209479177387814, in millionths
FallbackScale == 10     \* scales[k] = 0.01, in thousandths
FallbackRot == <<255, 0, 0, 0>>

\* attrs[prop] with row = r: the Proxy getter throws when the property has no
\* type, the DataView getter when the row lies outside the file.
AttrError(file, el, r, prop) ==
  IF ~HasType(el, prop) THEN prop \o " not found in PLY"
  ELSE IF r >= Len(file.rows) THEN "RangeError"
  ELSE "none"

Attr(file, r, prop) == file.rows[r + 1][prop]

\* The reads of a loop over el.count rows, rowAt[j] the row of iteration j,
\* each iteration reading props in order: the first one that throws.
FirstError(file, el, rowAt, props) ==
  LET m == Len(props)
      err(k) == AttrError(file, el, rowAt[(k - 1) \div m], props[((k - 1) % m) + 1])
      bad == {k \in 1 .. el.count * m : err(k) # "none"}
  IN IF bad = {} THEN "none"
     ELSE err(CHOOSE k \in bad : \A h \in bad : k <= h)

\* size * opacity of the importance loop; sizeList stays 0 without scale_0.
SizeScore(file, el, r) ==
  IF ~HasType(el, "scale_0") THEN 0
  ELSE Mul(Mul(Mul(Exp(Attr(file, r, "scale_0") * Milli),
                   Exp(Attr(file, r, "scale_1") * Milli)),
               Exp(Attr(file, r, "scale_2") * Milli)),
           Sigmoid(Attr(file, r, "opacity")))

\* sizeIndex.sort with the comparator's arguments swapped: ascending.
SizeIndexAscending(score, n) ==
  [j \in 0 .. n - 1 |->
     CHOOSE r \in 0 .. n - 1 :
       Cardinality({q \in 0 .. n - 1 : score[q] < score[r]
                                        \/ (score[q] = score[r] /\ q < r)}) = j]

\* sizeIndex.sort((b, a) => sizeList[a] - sizeList[b]): a stable sort of the
\* rows 0 .. n-1 by descending score; entry j is the row with j rows before it.
SizeIndex(score, n) ==
  [j \in 0 .. n - 1 |->
     CHOOSE r \in 0 .. n - 1 :
       Cardinality({q \in 0 .. n - 1 : score[q] > score[r]
                                        \/ (score[q] = score[r] /\ q < r)}) = j]

ImportanceProps(el) ==
  IF HasType(el, "scale_0") THEN <<"scale_0", "scale_1", "scale_2", "opacity">>
  ELSE <<>>

\* The properties one iteration of the output loop reads, in order.
OutputProps(el) ==
  (IF HasType(el, "scale_0")
   THEN <<"rot_0", "rot_1", "rot_2", "rot_3", "scale_0", "scale_1", "scale_2">>
   ELSE <<>>)
  \o <<"x", "y", "z">>
  \o (IF HasType(el, "f_dc_0") THEN <<"f_dc_0", "f_dc_1", "f_dc_2">>
      ELSE <<"red", "green", "blue">>)
  \o (IF HasType(el, "opacity") THEN <<"opacity">> ELSE <<>>)

\* rot[k] = (attrs.rot_k / qlen) * 128 + 128; 0 / 0 is NaN and stores 0.
RotByte(v, qlen) ==
  IF qlen = 0 THEN 0 ELSE ToUint8Clamped(v * 128 + 128 * qlen, qlen)

\* rgba[k] = (0.5 + shC0 * attrs.f_dc_k) * 255
ColourByte(f) == ToUint8Clamped((500000 + SH_C0 * f) * 255, Milli * Milli)

\* rgba[3] when the opacity property exists
AlphaByte(opacity) == ToUint8Clamped(Sigmoid(opacity) * 255, Milli)

\* The 32-byte record the output loop writes for input row r.
StandardRecord(file, el, r) ==
  LET a(prop) == Attr(file, r, prop)
      qlen == Sqrt(a("rot_0") * a("rot_0") + a("rot_1") * a("rot_1")
                   + a("rot_2") * a("rot_2") + a("rot_3") * a("rot_3"))
  IN [pos |-> <<a("x"), a("y"), a("z")>>,
      scale |-> IF HasType(el, "scale_0")
                THEN <<Exp(a("scale_0") * Milli), Exp(a("scale_1") * Milli),
                       Exp(a("scale_2") * Milli)>>
                ELSE <<FallbackScale, FallbackScale, FallbackScale>>,
      rgba |-> (IF HasType(el, "f_dc_0")
                THEN <<ColourByte(a("f_dc_0")), ColourByte(a("f_dc_1")),
                       ColourByte(a("f_dc_2"))>>
                ELSE <<a("red"), a("green"), a("blue")>>)
               \o << IF HasType(el, "opacity") THEN AlphaByte(a("opacity"))
                     ELSE 255 >>,
      rot |-> IF HasType(el, "scale_0")
              THEN <<RotByte(a("rot_0"), qlen), RotByte(a("rot_1"), qlen),
                     RotByte(a("rot_2"), qlen), RotByte(a("rot_3"), qlen)>>
              ELSE FallbackRot]

\* A canonical buffer of the given 32-byte records.
Canonical(records) ==
  [byteLength |-> ROW_BYTES * Len(records),
   pts |-> [j \in DOMAIN records |-> records[j].pos],
   recs |-> [j \in DOMAIN records |->
               [scale |-> records[j].scale, rgba |-> records[j].rgba,
                rot |-> records[j].rot]]]

Thrown(message) == [ok |-> FALSE, error |-> message, out |-> NullBuffer]
Returned(buf) == [ok |-> TRUE, error |-> "none", out |-> buf]

Identity(n) == [j \in 0 .. n - 1 |-> j]

ProcessStandardPlyBuffer(file, el) ==
  LET n == el.count
      e1 == FirstError(file, el, Identity(n), ImportanceProps(el))
      score == [r \in 0 .. n - 1 |-> SizeScore(file, el, r)]
      sizeIndex == SizeIndex(score, n)
      e2 == FirstError(file, el, sizeIndex, OutputProps(el))
  IN IF e1 # "none" THEN Thrown(e1)
     ELSE IF e2 # "none" THEN Thrown(e2)
     ELSE Returned(Canonical([j \in 1 .. n |->
                                StandardRecord(file, el, sizeIndex[j - 1])]))

\* ------------------------------------------------- processCompressedPlyBuffer
\* A packed uint32 is the pair <<high 16 bits, low 16 bits>>.  Chunk ranges:
\* positions in units of 1 / PosDen, log scales and colours in thousandths.
Q11Max == 2047
Q10Max == 1023
Sqrt2 == 1414           \* sqrt2 = 1.4142135623730951, in thousandths

\* (w >> 21) & 0x7ff, (w >> 11) & 0x3ff, w & 0x7ff
Unpack111011(w) ==
  << w[1] \div 32, (w[1] % 32) * 32 + (w[2] \div 2048), w[2] % 2048 >>

\* (w >> 24) & 0xff, (w >> 16) & 0xff, (w >> 8) & 0xff, w & 0xff
Unpack8888(w) == << w[1] \div 256, w[1] % 256, w[2] \div 256, w[2] % 256 >>

\* (w >> 30) & 0x3, (w >> 20) & 0x3ff, (w >> 10) & 0x3ff, w & 0x3ff
Unpack2101010(w) ==
  << w[1] \div 16384, (w[1] \div 16) % 1024,
     (w[1] % 16) * 64 + (w[2] \div 1024), w[2] % 1024 >>

\* min + (q / qMax) * (max - min)
Dequantize(min, max, q, qMax) == min + RoundHalfUp(q * (max - min), qMax)

\* decodePackedQuaternion, components in thousandths.
DecodePackedQuaternion(w) ==
  LET u == Unpack2101010(w)
      largestIndex == u[1]
      rem == [k \in 0 .. 2 |->
                RoundHalfUp((RoundHalfUp(u[k + 2] * Milli, Q10Max) - 500) * Sqrt2,
                            Milli)]
      rest(i) == rem[IF i < largestIndex THEN i ELSE i - 1]
      \* quat[largestIndex] is still 0 when the squares are summed
      sq(i) == IF i = largestIndex THEN 0 ELSE Mul(rest(i), rest(i))
      sumSquares == sq(0) + sq(1) + sq(2) + sq(3)
      omitted == SqrtFloor((IF sumSquares > Milli THEN 0 ELSE Milli - sumSquares)
                           * Milli)
  IN [i \in 1 .. 4 |-> IF i - 1 = largestIndex THEN omitted ELSE rest(i - 1)]

\* Vertices per chunk: chunkIndex = i >> 8.
ChunkSize == 2 ^ 8

\* i >> 9
ChunkIndexShift9(i) == i \div (2 * ChunkSize)

\* const chunkIndex = i >> 8
ChunkIndex(i) == i \div ChunkSize

\* The 32-byte record written for vertex i.
CompressedRecord(file, i) ==
  LET c == file.chunks[ChunkIndex(i) + 1]
      v == file.rows[i + 1]
      p == Unpack111011(v.packed_position)
      s == Unpack111011(v.packed_scale)
      k == Unpack8888(v.packed_color)
      quat == DecodePackedQuaternion(v.packed_rotation)
      colour(min, max, q) == Clamp255(Dequantize(min, max, q, 255) * 255, Milli)
  IN [pos |-> <<Dequantize(c.min_x, c.max_x, p[1], Q11Max),
                Dequantize(c.min_y, c.max_y, p[2], Q10Max),
                Dequantize(c.min_z, c.max_z, p[3], Q11Max)>>,
      \* Math.max(1e-6, Math.exp(logScale)): the exponential wins on the
      \* modelled range
      scale |-> <<Exp(Dequantize(c.min_scale_x, c.max_scale_x, s[1], Q11Max)),
                  Exp(Dequantize(c.min_scale_y, c.max_scale_y, s[2], Q10Max)),
                  Exp(Dequantize(c.min_scale_z, c.max_scale_z, s[3], Q11Max))>>,
      rgba |-> <<colour(c.min_r, c.max_r, k[1]), colour(c.min_g, c.max_g, k[2]),
                 colour(c.min_b, c.max_b, k[3]), k[4]>>,
      rot |-> [j \in 1 .. 4 |-> Clamp255(quat[j] * 128 + 128 * Milli, Milli)]]

\* The chunk table of every modelled file has the declared number of rows;
\* a vertex row outside the file makes the DataView getter throw.
ProcessCompressedPlyBuffer(file, elements) ==
  LET chunk == FindElement(elements, "chunk")
      vertex == FindElement(elements, "vertex")
      n == elements[vertex].count
  IN IF chunk = 0 \/ vertex = 0
     THEN Thrown("Compressed PLY missing chunk/vertex elements")
     ELSE IF n > Len(file.rows) THEN Thrown("RangeError")
     ELSE Returned(Canonical([j \in 1 .. n |-> CompressedRecord(file, j - 1)]))

\* ------------------------------------------------------------ processPlyBuffer
\* The standard decoder reads the vertex rows directly after the header.
ProcessPlyBuffer(file) ==
  LET elements == ParseLines(file.lines, 1, <<>>)
      vertex == FindElement(elements, "vertex")
  IN IF HeaderEndIndex(file) < 0 THEN Thrown("Unable to read .ply file header")
     ELSE IF vertex = 0 THEN Thrown("Unable to parse PLY vertex element")
     ELSE IF HasType(elements[vertex], "packed_position")
     THEN ProcessCompressedPlyBuffer(file, elements)
     ELSE ProcessStandardPlyBuffer(file, elements[vertex])

\* ------------------------------------------------------------ modelled files
Names(prefix) ==
  CASE prefix = "xyz" -> <<"x", "y", "z">>
    [] prefix = "scale" -> <<"scale_0", "scale_1", "scale_2">>
    [] prefix = "rot" -> <<"rot_0", "rot_1", "rot_2", "rot_3">>
    [] prefix = "f_dc" -> <<"f_dc_0", "f_dc_1", "f_dc_2">>
    [] prefix = "rgb" -> <<"red", "green", "blue">>
    [] prefix = "opacity" -> <<"opacity">>

RECURSIVE PropertyLines(_)
PropertyLines(prefixes) ==
  IF prefixes = <<>> THEN <<>>
  ELSE LET names == Names(Head(prefixes))
           type == IF Head(prefixes) = "rgb" THEN "uchar" ELSE "float"
       IN [k \in DOMAIN names |-> Property(type, names[k])]
          \o PropertyLines(Tail(prefixes))

\* The property groups a standard vertex element declares.
Layouts ==
  { <<"xyz", "scale", "rot", "f_dc", "opacity">>,
    <<"xyz", "scale", "rot", "opacity">>,
    <<"xyz", "scale", "rot", "rgb">>,
    <<"xyz", "rgb">>,
    <<"xyz", "rgb", "opacity">>,
    <<"xyz">> }

\* Vertex rows with every property; a file keeps the declared ones.
RowsMixed ==
  << [x |-> 16, y |-> 0, z |-> 80, scale_0 |-> -1, scale_1 |-> -1, scale_2 |-> 0,
      rot_0 |-> 1, rot_1 |-> 0, rot_2 |-> 0, rot_3 |-> 0,
      f_dc_0 |-> 0, f_dc_1 |-> 0, f_dc_2 |-> 0,
      red |-> 255, green |-> 0, blue |-> 10, opacity |-> 0],
     [x |-> 0, y |-> 16, z |-> -48, scale_0 |-> 1, scale_1 |-> 0, scale_2 |-> 0,
      rot_0 |-> 0, rot_1 |-> 0, rot_2 |-> 3, rot_3 |-> 4,
      f_dc_0 |-> 1, f_dc_1 |-> -1, f_dc_2 |-> 2,
      red |-> 1, green |-> 2, blue |-> 3, opacity |-> 1],
     [x |-> 32, y |-> 0, z |-> 80, scale_0 |-> 0, scale_1 |-> 0, scale_2 |-> 0,
      rot_0 |-> 2, rot_1 |-> -2, rot_2 |-> 2, rot_3 |-> 2,
      f_dc_0 |-> 0, f_dc_1 |-> 1, f_dc_2 |-> 0,
      red |-> 128, green |-> 128, blue |-> 128, opacity |-> -2] >>

\* Rows 0 and 2 have the same importance, row 1 a larger one.
RowsTied ==
  << [x |-> 8, y |-> 0, z |-> 8, scale_0 |-> 0, scale_1 |-> -1, scale_2 |-> 1,
      rot_0 |-> 0, rot_1 |-> 0, rot_2 |-> 0, rot_3 |-> 0,
      f_dc_0 |-> -2, f_dc_1 |-> 0, f_dc_2 |-> 3,
      red |-> 9, green |-> 8, blue |-> 7, opacity |-> 2],
     [x |-> 24, y |-> 8, z |-> 0, scale_0 |-> 1, scale_1 |-> 1, scale_2 |-> 0,
      rot_0 |-> 0, rot_1 |-> 1, rot_2 |-> 0, rot_3 |-> 0,
      f_dc_0 |-> 0, f_dc_1 |-> 0, f_dc_2 |-> 0,
      red |-> 0, green |-> 0, blue |-> 0, opacity |-> 2],
     [x |-> 40, y |-> 0, z |-> -8, scale_0 |-> 0, scale_1 |-> -1, scale_2 |-> 1,
      rot_0 |-> 3, rot_1 |-> 0, rot_2 |-> 4, rot_3 |-> 0,
      f_dc_0 |-> 1, f_dc_1 |-> 1, f_dc_2 |-> 1,
      red |-> 200, green |-> 100, blue |-> 50, opacity |-> 2] >>

Restrict(row, names) == [p \in names |-> row[p]]

\* A standard file: header of one vertex element with the layout's
\* properties, then the rows.
StandardFile(term, layout, count, rows) ==
  LET props == PropertyLines(layout)
      names == {props[k].name : k \in DOMAIN props}
  IN [term |-> term,
      lines |-> <<OtherLine, OtherLine, Element("vertex", count)>> \o props,
      chunks |-> <<>>,
      rows |-> [r \in DOMAIN rows |-> Restrict(rows[r], names)]]

\* A compressed file of one chunk and three packed vertices.
ChunkNames ==
  << "min_x", "min_y", "min_z", "max_x", "max_y", "max_z",
     "min_scale_x", "min_scale_y", "min_scale_z",
     "max_scale_x", "max_scale_y", "max_scale_z",
     "min_r", "min_g", "min_b", "max_r", "max_g", "max_b" >>
ChunkLines == [k \in DOMAIN ChunkNames |-> Property("float", ChunkNames[k])]
PackedLines ==
  << Property("uint", "packed_position"), Property("uint", "packed_rotation"),
     Property("uint", "packed_scale"), Property("uint", "packed_color") >>
ChunkRow ==
  [min_x |-> -2047, min_y |-> 0, min_z |-> -4094,
   max_x |-> 2047, max_y |-> 1023, max_z |-> 4094,
   min_scale_x |-> -2000, min_scale_y |-> -1000, min_scale_z |-> 0,
   max_scale_x |-> 0, max_scale_y |-> 1000, max_scale_z |-> 0,
   min_r |-> 0, min_g |-> 0, min_b |-> 200,
   max_r |-> 1000, max_g |-> 510, max_b |-> 1200]
PackedRows ==
  << [packed_position |-> <<65535, 65535>>, packed_rotation |-> <<8191, 63999>>,
      packed_scale |-> <<0, 0>>, packed_color |-> <<65535, 65280>>],
     [packed_position |-> <<0, 0>>, packed_rotation |-> <<57343, 63999>>,
      packed_scale |-> <<65535, 65535>>, packed_color |-> <<128, 255>>],
     [packed_position |-> <<32784, 1024>>, packed_rotation |-> <<24576, 0>>,
      packed_scale |-> <<65504, 2047>>, packed_color |-> <<32896, 32807>>] >>

\* A second chunk: ranges that the quantization steps do not divide, an
\* axis with min = max and an axis with min > max.
ChunkRowFar ==
  [min_x |-> 5000, min_y |-> 7, min_z |-> 5,
   max_x |-> 6000, max_y |-> 7, max_z |-> -5,
   min_scale_x |-> -1000, min_scale_y |-> 0, min_scale_z |-> 0,
   max_scale_x |-> 1000, max_scale_y |-> 0, max_scale_z |-> 1000,
   min_r |-> 0, min_g |-> 0, min_b |-> 0,
   max_r |-> 1000, max_g |-> 1000, max_b |-> 1000]

\* More vertices than one chunk holds.
LongCount == ChunkSize + 3
LongRows == [i \in 1 .. LongCount |-> PackedRows[((i - 1) % 3) + 1]]

\* A compressed file with the given chunk table (no chunk element when the
\* table is empty).
CompressedFile(chunks, count, rows) ==
  [term |-> 600,
   lines |-> <<OtherLine, OtherLine>>
             \o (IF chunks # <<>>
                 THEN <<Element("chunk", Len(chunks))>> \o ChunkLines
                 ELSE <<>>)
             \o <<Element("vertex", count)>> \o PackedLines,
   chunks |-> chunks,
   rows |-> rows]

\* A header without a vertex element.
FileNoVertex ==
  [term |-> 120,
   lines |-> <<OtherLine, Element("face", 2), Property("int", "vertex_index")>>,
   chunks |-> <<>>, rows |-> <<>>]

FileGood == StandardFile(300, <<"xyz", "scale", "rot", "f_dc", "opacity">>, 3,
                         RowsMixed)

\* Every modelled .ply file.
AllPlyFiles ==
  {StandardFile(300, layout, 3, rows) :
     layout \in Layouts, rows \in {RowsMixed, RowsTied}}
  \cup {StandardFile(term, <<"xyz", "scale", "rot", "f_dc", "opacity">>, 3,
                     RowsMixed) :
          term \in {-1, HeaderWindow - HeaderEndLen,
                    HeaderWindow - HeaderEndLen + 1, 2 * HeaderWindow}}
  \cup {StandardFile(300, <<"xyz", "scale", "rot", "f_dc", "opacity">>, 3,
                     SubSeq(RowsMixed, 1, 2)),
        StandardFile(300, <<"xyz", "rgb">>, 0, <<>>),
        FileNoVertex,
        CompressedFile(<<ChunkRow>>, 3, PackedRows),
        CompressedFile(<<>>, 3, PackedRows),
        CompressedFile(<<ChunkRow>>, 3, SubSeq(PackedRows, 1, 2)),
        CompressedFile(<<ChunkRow, ChunkRowFar>>, LongCount, LongRows)}

\* processPlyBuffer of every modelled file, computed once.
Decoded == [file \in AllPlyFiles |-> ProcessPlyBuffer(file)]

\* msg.save of a 'ply' message: a boolean or absent.
SaveValues == {"true", "false", "undefined"}

\* Boolean(msg.save)
ToBoolean(v) == v = "true"

\* ------------------------------------------------- createSortWorker (bridge)
\* The messages the main side posts; transfer: the buffer is in the
\* transfer list of worker.postMessage.
NoMessage == [type |-> "none", transfer |-> FALSE]
PostViewProjection(m) == [type |-> "view", viewProj |-> m, transfer |-> FALSE]
PostSplatBuffer(buffer, vc) ==
  [type |-> "buffer", buffer |-> buffer, vertexCount |-> vc, transfer |-> TRUE]
\* postPlyBuffer(buffer, save = false)
PostPlyBuffer(file, save) ==
  [type |-> "ply", buffer |-> file,
   save |-> IF save = "undefined" THEN "false" ELSE save, transfer |-> TRUE]

\* Every decode-file message.
AllPlyMessages == {PostPlyBuffer(f, s) : f \in AllPlyFiles, s \in SaveValues}

\* The decode-file messages of the scheduler's behaviours.
PlyFiles ==
  { PostPlyBuffer(FileNoVertex, "undefined"), PostPlyBuffer(FileGood, "true") }

\* The canonical buffers the scheduler's behaviours sort.
Buffers == LoadBuffers \cup {Decoded[FileGood].out}

\* ------------------------------------------------------------------- state
VARIABLES
  sourceBuffer,       \* let sourceBuffer: ArrayBuffer | null
  vertexCount,        \* let vertexCount
  viewProj,           \* let viewProj: the array of the last view message
  lastProj,           \* let lastProj: copy of the last sorted matrix
  lastVertexCount,    \* let lastVertexCount
  sortRunning,        \* let sortRunning
  timers,             \* pending setTimeout callbacks, each with its lastView
  nMsgs,              \* inbound messages handled so far
  calls,              \* runSort invocations of the last step
  posted,             \* ctx.postMessage calls of the last step
  raised,             \* uncaught exception of the last step
  sortThrew,          \* some runSort call has thrown
  lastCalled,         \* identity of the last view throttledSort passed on
  lastDepthView,      \* identity of the view of the last depth message
  stale,              \* views replaced while waiting for the timer
  prevView,           \* the view message before the current one
  vcKept,             \* vertexCount not changed since viewProj arrived
  vcSame,             \* vertexCount not changed since prevView arrived
  inbound,            \* the message the last step handled
  freshCount          \* a 'buffer' message changed vertexCount to a new
                      \* positive value and the scheduler has not since
                      \* called runSort with a view of 16 entries
VARIABLES
  arg,                \* the arguments of the function call of the last step
  result              \* what that call returned
VARIABLES
  lastSplat,          \* the last 'splat' message posted and its sourceBuffer
  lastDepth           \* the last 'depth' message posted and its sourceBuffer
VARIABLES
  toMain,             \* worker messages the main thread has not handled yet
  renderer,           \* the renderer's instanceCount, capacities and buffers
  drawn               \* what the last render() call drew
VARIABLES
  loader,             \* streamSplat: its locals and the callback's counter
  updates             \* the onChunk calls made so far

vars == <<sourceBuffer, vertexCount, viewProj, lastProj, lastVertexCount,
          sortRunning, timers, nMsgs, calls, posted, raised, sortThrew,
          lastCalled, lastDepthView, stale, prevView, vcKept, vcSame,
          inbound, freshCount, arg, result, lastSplat, lastDepth,
          toMain, renderer, drawn, loader, updates>>

\* The main thread's side.
mainVars == <<toMain, renderer, drawn>>

\* The outbound history.
histVars == <<lastSplat, lastDepth>>

\* The variables the worker's handlers do not touch.
sideVars == <<arg, result, toMain, renderer, drawn, loader, updates>>

\* The streaming loader's side.
loaderVars == <<loader, updates>>

\* streamSplat not called yet.
LoaderIdle ==
  /\ loader = [pc |-> "idle"]
  /\ updates = <<>>

\* createWebGPURenderer: capacities in 32-bit words, zero-filled buffers.
\*   splat        the payload last written to splatBuffer
\*   sortedIndex  the words of sortedIndexBuffer
\*   indexFor     the payload the indices last written were sorted for
RendererInit ==
  [instanceCount |-> 0, splatCapacity |-> 8, indexCapacity |-> 4,
   splat |-> [vertexCount |-> -1, src |-> NullBuffer],
   sortedIndex |-> [i \in 0 .. 3 |-> 0],
   indexFor |-> [vertexCount |-> -1, src |-> NullBuffer]]

NoDraw == [instanceCount |-> -1]

\* The main thread before any worker message and any frame.
MainIdle ==
  /\ toMain = <<>>
  /\ renderer = RendererInit
  /\ drawn = NoDraw

\* --------------------------------------------------------------- depth sort
Dot3(a, b) == a[1] * b[1] + a[2] * b[2] + a[3] * b[3]

\* x | 0 on a quotient n / d (d > 0): truncation toward zero.
TruncDiv(n, d) == IF n >= 0 THEN n \div d ELSE -((-n) \div d)

\* Row i's position words 8i .. 8i+2 lie inside the Float32Array.
HasPos(buf, i) == i < Len(buf.pts)

\* ((proj[2]*x + proj[6]*y + proj[10]*z) * 4096) | 0; a read past the end of
\* the array is undefined, the sum NaN, and NaN | 0 is 0.
DepthKeyNegated(axis, buf, i) ==
  IF HasPos(buf, i)
  THEN TruncDiv(-Dot3(axis, buf.pts[i + 1]) * DepthScale, AxisDen * PosDen)
  ELSE 0

DepthKey(axis, buf, i) ==
  IF HasPos(buf, i)
  THEN TruncDiv(Dot3(axis, buf.pts[i + 1]) * DepthScale, AxisDen * PosDen)
  ELSE 0

\* sizeList after the first loop.
SizeList(axis, buf, n) == [i \in 0 .. n - 1 |-> DepthKey(axis, buf, i)]

FnRange(f) == {f[i] : i \in DOMAIN f}

MaxOf(S) == CHOOSE x \in S : \A y \in S : y <= x

MinOf(S) == CHOOSE x \in S : \A y \in S : x <= y

\* maxDepth - minDepth || 1
DepthSpan(sl) ==
  LET d == MaxOf(FnRange(sl)) - MinOf(FnRange(sl)) IN IF d = 0 THEN 1 ELSE d

\* sizeList[i] = ((sizeList[i] - minDepth) * depthInv) | 0
Quantize(sl) ==
  [i \in DOMAIN sl |->
     ((sl[i] - MinOf(FnRange(sl))) * BucketMax) \div DepthSpan(sl)]

\* counts0[b] after the histogram loop.
Counts0(q, b) == Cardinality({i \in DOMAIN q : q[i] = b})

RECURSIVE SumCounts(_, _)
SumCounts(q, bs) ==
  IF bs = {} THEN 0
  ELSE LET b == CHOOSE x \in bs : TRUE
       IN Counts0(q, b) + SumCounts(q, bs \ {b})

\* The prefix sum with counts0[i] in place of counts0[i - 1].
Starts0Inclusive(q, b) == SumCounts(q, {c \in FnRange(q) : 0 < c /\ c <= b})

\* starts0[b] = starts0[b - 1] + counts0[b - 1], starts0[0] = 0: the sum of
\* the counts of the buckets below b (empty buckets add nothing).
Starts0(q, b) == SumCounts(q, {c \in FnRange(q) : c < b})

\* The scatter without the post-increment of the slot pointer.
ScatterSlotNoInc(i, q) == Starts0(q, q[i])

\* The scatter loop run from the last row down.
ScatterSlotDescending(i, q) ==
  Starts0(q, q[i]) + Cardinality({j \in DOMAIN q : j > i /\ q[j] = q[i]})

\* starts0[sizeList[i]]++ when the ascending loop reaches row i: the start
\* of the row's bucket plus one increment for every earlier row of the
\* same bucket.
ScatterSlot(i, q) ==
  Starts0(q, q[i]) + Cardinality({j \in DOMAIN q : j < i /\ q[j] = q[i]})

\* The depthIndex array runSort transfers, a function on 0 .. n-1:
\* depthIndex[starts0[sizeList[i]]++] = i for i = 0 .. n-1.  The array is
\* zero-filled, a store outside it is ignored, and of several stores to one
\* slot the last (the largest i) stays.
DepthIndex(axis, buf, n) ==
  LET q == Quantize(SizeList(axis, buf, n))
  IN [p \in 0 .. n - 1 |->
        LET w == {i \in 0 .. n - 1 : ScatterSlot(i, q) = p}
        IN IF w = {} THEN 0 ELSE MaxOf(w)]

\* DepthIndex tabulated over the model's inputs, so that every runSort of a
\* behaviour reads a value computed once.
DepthIndexTable ==
  [axis \in Axes, buf \in Buffers,
   n \in (UNION {VertexCounts(b) : b \in Buffers}) \ {0} |->
     DepthIndex(axis, buf, n)]

\* ------------------------------------------------------------------ runSort
Abs(x) == IF x < 0 THEN -x ELSE x

\* lastProj[2]*proj[2] + lastProj[6]*proj[6] + lastProj[10]*proj[10], in
\* units of 1 / AxisDen^2.
AxisDot(lastP, proj) == Dot3(lastP.axis, proj.axis)

\* The skip test never true: every run with an unchanged count sorts.
NearIdenticalNever(lastP, proj) == FALSE

\* The skip test on the normalised dot product (cosine similarity > 0.99).
NearIdenticalCosine(lastP, proj) ==
  LET d == AxisDot(lastP, proj)
  IN /\ lastP.len > 10 /\ proj.len > 10
     /\ d > 0
     /\ d * d * 100 * 100 >
          99 * 99 * Dot3(lastP.axis, lastP.axis) * Dot3(proj.axis, proj.axis)

\* Math.abs(dot - 1) < 0.01; an entry read from a shorter array is
\* undefined, the dot product NaN and the comparison false.
NearIdentical(lastP, proj) ==
  /\ lastP.len > 10 /\ proj.len > 10
  /\ SkipTolInv * Abs(AxisDot(lastP, proj) - AxisDen * AxisDen) < AxisDen * AxisDen

\* proj.slice(): a copy of the entries, a new array.
Slice(proj) == [len |-> proj.len, axis |-> proj.axis]

\* ------------------------------------------------------ float32 and float16
\* A float32 bit pattern: sign bit, 8 exponent bits, 23 fraction bits.
F32(sign, exp, frac) == [sign |-> sign, exp |-> exp, frac |-> frac]

\* A JS number when it is read from a Float32Array: "nan" (with the pattern
\* it was read from), "inf", or the number (-1)^sign * m * 2^e.
Num(sign, m, e) == [kind |-> "num", sign |-> sign, m |-> m, e |-> e]
Inf(sign) == [kind |-> "inf", sign |-> sign, m |-> 0, e |-> 0]
NaN(f) == [kind |-> "nan", sign |-> f.sign, m |-> f.frac, e |-> 0]

\* The NaN encodings an engine writes into a Float32Array (the standard
\* leaves the pattern to the implementation): the hardware conversion
\* float32 -> double -> float32, which sets the quiet bit and keeps the
\* rest, or the one canonical NaN of engines that box values in NaNs.
NanEncodings == {"quiet", "canonical"}

\* Float32Array element read.
ReadFloat32(f) ==
  IF f.exp = 255 THEN (IF f.frac = 0 THEN Inf(f.sign) ELSE NaN(f))
  ELSE IF f.exp = 0 THEN Num(f.sign, f.frac, -149)
  ELSE Num(f.sign, 2 ^ 23 + f.frac, f.exp - 150)

\* Number of bits of m, 0 <= m < 2^30.
BitLen(m) == CHOOSE k \in 0 .. 30 : m < 2 ^ k /\ (k = 0 \/ m >= 2 ^ (k - 1))

\* m * 2^k to the nearest integer, ties to even.
Scale2(m, k) ==
  IF k >= 0 THEN m * 2 ^ k
  ELSE IF k < -30 THEN 0
  ELSE RoundHalfEven(m, 2 ^ (-k))

\* Float32Array element write followed by the read of its bits through the
\* Int32Array on the same buffer (floatView[0] = v; int32View[0]).
WriteFloat32(v, engine) ==
  IF v.kind = "nan"
  THEN IF engine = "canonical" THEN F32(0, 255, 2 ^ 22)
       ELSE F32(v.sign, 255, IF v.m >= 2 ^ 22 THEN v.m ELSE v.m + 2 ^ 22)
  ELSE IF v.kind = "inf" THEN F32(v.sign, 255, 0)
  ELSE IF v.m = 0 THEN F32(v.sign, 0, 0)
  ELSE LET len == BitLen(v.m)
           ex == len - 1 + v.e
       IN IF ex < -126
          THEN LET fr == Scale2(v.m, v.e + 149)
               IN IF fr = 2 ^ 23 THEN F32(v.sign, 1, 0) ELSE F32(v.sign, 0, fr)
          ELSE LET mant == Scale2(v.m, 24 - len)
                   up == mant = 2 ^ 24
               IN IF ex + (IF up THEN 1 ELSE 0) > 127 THEN F32(v.sign, 255, 0)
                  ELSE F32(v.sign, ex + (IF up THEN 1 ELSE 0) + 127,
                           IF up THEN 0 ELSE mant - 2 ^ 23)

\* x >> s for 0 <= x < 2^31: the shift count is taken modulo 32.
ShiftRight(x, s) == IF s % 32 = 31 THEN 0 ELSE x \div (2 ^ (s % 32))

\* floatToHalf(float): the 16-bit result.  `frac >> (113 - exp)` shifts by
\* the count modulo 32; the three fields of the result never overlap in a
\* way that | and + differ (newExp is 0 whenever frac >> 13 reaches bit 10).
FloatToHalf(float, engine) ==
  LET f == WriteFloat32(float, engine)
      sign == f.sign
      exp == f.exp
      shifted == ShiftRight(f.frac + 2 ^ 23, 113 - exp)
      newExp == IF exp = 0 THEN 0
                ELSE IF exp < 113
                THEN (IF (shifted \div (2 ^ 24)) % 2 = 1 THEN 1 ELSE 0)
                ELSE IF exp < 142 THEN exp - 112
                ELSE 31
      frac == IF exp = 0 THEN f.frac
              ELSE IF exp < 113
              THEN (IF (shifted \div (2 ^ 24)) % 2 = 1 THEN 0 ELSE shifted)
              ELSE IF exp < 142 THEN f.frac
              ELSE 0
  IN sign * 2 ^ 15 + newExp * 2 ^ 10 + frac \div (2 ^ 13)

\* packHalf2x16(x, y) as <<high half, low half>> of the uint32.
PackHalf2x16(x, y, engine) == << FloatToHalf(y, engine), FloatToHalf(x, engine) >>

\* int32ViewFromFloat(value)
Int32ViewFromFloat(value, engine) == WriteFloat32(value, engine)

\* ---------------------------------------------------------- postSplatPayload
\* Exact arithmetic on dyadic rationals m * 2^e (m odd or 0); every modelled
\* product and sum has fewer than 31 bits, so the program's double
\* arithmetic is exact on them too.
RECURSIVE Dy(_, _)
Dy(m, e) ==
  IF m = 0 THEN [m |-> 0, e |-> 0]
  ELSE IF m % 2 = 0 THEN Dy(m \div 2, e + 1)
  ELSE [m |-> m, e |-> e]

DyMul(a, b) == Dy(a.m * b.m, a.e + b.e)

DyAdd(a, b) ==
  IF a.m = 0 THEN b
  ELSE IF b.m = 0 THEN a
  ELSE LET e == IF a.e < b.e THEN a.e ELSE b.e
       IN Dy(a.m * 2 ^ (a.e - e) + b.m * 2 ^ (b.e - e), e)

DyNeg(a) == [m |-> -a.m, e |-> a.e]

\* A finite number read from a Float32Array as a dyadic rational, and back.
DyOfNum(v) == Dy(IF v.sign = 1 THEN -v.m ELSE v.m, v.e)
NumOfDy(a) == Num(IF a.m < 0 THEN 1 ELSE 0, IF a.m < 0 THEN -a.m ELSE a.m, a.e)

\* (uBuffer[32 * i + 28 + k] - 128) / 128
RotOf(byte) == Dy(byte - 128, -7)

\* The scale-rotation matrix m[0..8] (here 1..9) of a record.
ScaleRotMatrix(scale, rot) ==
  LET r(k) == RotOf(rot[k + 1])
      one == Dy(1, 0)
      twice(a) == DyMul(Dy(2, 0), a)
      \* 1.0 - 2.0 * (a * a + b * b)
      diag(a, b) == DyAdd(one, DyNeg(twice(DyAdd(DyMul(a, a), DyMul(b, b)))))
      \* 2.0 * (a * b + c * d) and 2.0 * (a * b - c * d)
      plus(a, b, c, d) == twice(DyAdd(DyMul(a, b), DyMul(c, d)))
      minus(a, b, c, d) == twice(DyAdd(DyMul(a, b), DyNeg(DyMul(c, d))))
      raw == << diag(r(2), r(3)), plus(r(1), r(2), r(0), r(3)),
                minus(r(1), r(3), r(0), r(2)),
                minus(r(1), r(2), r(0), r(3)), diag(r(1), r(3)),
                plus(r(2), r(3), r(0), r(1)),
                plus(r(1), r(3), r(0), r(2)), minus(r(2), r(3), r(0), r(1)),
                diag(r(1), r(2)) >>
  IN [idx \in 1 .. 9 |->
        DyMul(raw[idx], DyOfNum(ReadFloat32(scale[((idx - 1) \div 3) + 1])))]

\* sigma[0..5] (here 1..6): the upper triangle of the covariance.
Sigma(m) ==
  LET dot(a, b) == DyAdd(DyAdd(DyMul(m[a + 1], m[b + 1]),
                               DyMul(m[a + 4], m[b + 4])),
                         DyMul(m[a + 7], m[b + 7]))
  IN << dot(0, 0), dot(0, 1), dot(0, 2), dot(1, 1), dot(1, 2), dot(2, 2) >>

\* The 8 words packed for one record, word k at index k + 1: words 0..2 are
\* float32 patterns, words 3..6 <<high half, low half>>, word 7 its four
\* bytes in memory order.
PackedWords(rec, engine) ==
  LET sigma == Sigma(ScaleRotMatrix(rec.scale, rec.rot))
      four(k) == NumOfDy(DyMul(Dy(4, 0), sigma[k + 1]))
  IN << Int32ViewFromFloat(ReadFloat32(rec.pos[1]), engine),
        Int32ViewFromFloat(ReadFloat32(rec.pos[2]), engine),
        Int32ViewFromFloat(ReadFloat32(rec.pos[3]), engine),
        << 0, 0 >>,
        PackHalf2x16(four(0), four(1), engine),
        PackHalf2x16(four(2), four(3), engine),
        PackHalf2x16(four(4), four(5), engine),
        rec.rgba >>

\* (uBuffer[32 * i + 28 + k] - 128) / 128 of postSplatPayload, in units of
\* 1 / 128.
DequantRot(byte) == byte - 128

\* postSplatPayload: one 'splat' message of vertexCount packed rows, the
\* packed buffer in the transfer list.
PostSplatPayload(src, vc) ==
  IF IsNull(src) \/ vc <= 0 THEN <<>>
  ELSE << [type |-> "splat", vertexCount |-> vc, transfer |-> TRUE] >>

\* runSort that posts the payload after the depth index.
RunSortDepthFirst(src, vc, proj, lastP, lastVC) ==
  IF IsNull(src) \/ vc <= 0 \/ proj.len < MinProjLen
  THEN [outcome |-> "guard", posted |-> <<>>,
        lastProj |-> lastP, lastVertexCount |-> lastVC]
  ELSE IF src.byteLength % 4 # 0
  THEN [outcome |-> "threw", posted |-> <<>>,
        lastProj |-> lastP, lastVertexCount |-> lastVC]
  ELSE IF lastVC = vc /\ NearIdentical(lastP, proj)
  THEN [outcome |-> "skip", posted |-> <<>>,
        lastProj |-> lastP, lastVertexCount |-> lastVC]
  ELSE [outcome |-> "sorted",
        posted |-> << [type |-> "depth",
                       depthIndex |-> DepthIndexTable[proj.axis, src, vc],
                       vertexCount |-> vc, transfer |-> TRUE] >>
                   \o (IF lastVC = vc THEN <<>> ELSE PostSplatPayload(src, vc)),
        lastProj |-> Slice(proj), lastVertexCount |-> vc]

\* runSort(proj) in the state (src, vc, lastP, lastVC): how it ends, what it
\* posts and what it leaves in lastProj and lastVertexCount.
\*   "guard"  returned at the first line
\*   "threw"  new Float32Array(sourceBuffer) raised a RangeError (the byte
\*            length is not a multiple of 4)
\*   "skip"   returned at the near-identical test
\*   "sorted" ran to the end
RunSort(src, vc, proj, lastP, lastVC) ==
  IF IsNull(src) \/ vc <= 0 \/ proj.len < MinProjLen
  THEN [outcome |-> "guard", posted |-> <<>>,
        lastProj |-> lastP, lastVertexCount |-> lastVC]
  ELSE IF src.byteLength % 4 # 0
  THEN [outcome |-> "threw", posted |-> <<>>,
        lastProj |-> lastP, lastVertexCount |-> lastVC]
  ELSE IF lastVC = vc /\ NearIdentical(lastP, proj)
  THEN [outcome |-> "skip", posted |-> <<>>,
        lastProj |-> lastP, lastVertexCount |-> lastVC]
  ELSE [outcome |-> "sorted",
        posted |-> (IF lastVC = vc THEN <<>> ELSE PostSplatPayload(src, vc))
                   \o << [type |-> "depth",
                          depthIndex |-> DepthIndexTable[proj.axis, src, vc],
                          vertexCount |-> vc, transfer |-> TRUE] >>,
        lastProj |-> Slice(proj), lastVertexCount |-> vc]

\* What one runSort invocation saw and did.
CallRec(by, src, vc, proj, lastP, lastVC, r) ==
  [by |-> by, view |-> proj.id, proj |-> Slice(proj), src |-> src, vc |-> vc,
   lastProj |-> lastP, lastVC |-> lastVC, outcome |-> r.outcome]

\* ------------------------------------------------------------ throttledSort
\* throttledSort without the `if (sortRunning) return` line.
ThrottledSortNoGuard(running, tms, view, src, vc, lastP, lastVC) ==
  LET r == RunSort(src, vc, view, lastP, lastVC)
  IN [sortRunning |-> TRUE,
      timers |-> IF r.outcome = "threw" THEN tms ELSE Append(tms, view.id),
      lastProj |-> r.lastProj, lastVertexCount |-> r.lastVertexCount,
      calls |-> << CallRec("sched", src, vc, view, lastP, lastVC, r) >>,
      posted |-> r.posted,
      raised |-> IF r.outcome = "threw" THEN "RangeError" ELSE "none"]

\* throttledSort() with sortRunning = running and the pending timers tms:
\* the new scheduler state, the runSort call it made and what that posted.
\* A runSort that throws leaves sortRunning set and schedules no timer.
ThrottledSort(running, tms, view, src, vc, lastP, lastVC) ==
  IF running
  THEN [sortRunning |-> running, timers |-> tms,
        lastProj |-> lastP, lastVertexCount |-> lastVC,
        calls |-> <<>>, posted |-> <<>>, raised |-> "none"]
  ELSE LET r == RunSort(src, vc, view, lastP, lastVC)
       IN [sortRunning |-> TRUE,
           timers |-> IF r.outcome = "threw" THEN tms ELSE Append(tms, view.id),
           lastProj |-> r.lastProj, lastVertexCount |-> r.lastVertexCount,
           calls |-> << CallRec("sched", src, vc, view, lastP, lastVC, r) >>,
           posted |-> r.posted,
           raised |-> IF r.outcome = "threw" THEN "RangeError" ELSE "none"]

\* The timer callback that only clears the flag.
TimerCallbackNoRerun(captured, tms, view, src, vc, lastP, lastVC) ==
  [sortRunning |-> FALSE, timers |-> tms,
   lastProj |-> lastP, lastVertexCount |-> lastVC,
   calls |-> <<>>, posted |-> <<>>, raised |-> "none"]

\* The timer callback that re-runs whether or not the view changed.
TimerCallbackAlways(captured, tms, view, src, vc, lastP, lastVC) ==
  ThrottledSort(FALSE, tms, view, src, vc, lastP, lastVC)

\* The setTimeout callback whose closure holds lastView = captured; tms are
\* the timers still pending once this one has fired.
TimerCallback(captured, tms, view, src, vc, lastP, lastVC) ==
  IF captured # view.id
  THEN ThrottledSort(FALSE, tms, view, src, vc, lastP, lastVC)
  ELSE [sortRunning |-> FALSE, timers |-> tms,
        lastProj |-> lastP, lastVertexCount |-> lastVC,
        calls |-> <<>>, posted |-> <<>>, raised |-> "none"]

\* ------------------------------------------------------------------ history
\* Nothing posted yet.
NoPayload == [vertexCount |-> -1, src |-> NullBuffer]

\* The last message of the given type among old and the messages msgs posted
\* while sourceBuffer was src.
LastPosted(msgs, type, src, old) ==
  LET ks == {k \in DOMAIN msgs : msgs[k].type = type}
  IN IF ks = {} THEN old
     ELSE [vertexCount |-> msgs[MaxOf(ks)].vertexCount, src |-> src]

\* The bookkeeping shared by the two steps that run the scheduler.
SchedulerHistory(t) ==
  /\ lastSplat' = LastPosted(t.posted, "splat", sourceBuffer, lastSplat)
  /\ lastDepth' = LastPosted(t.posted, "depth", sourceBuffer, lastDepth)
  /\ calls' = t.calls
  /\ posted' = t.posted
  /\ raised' = t.raised
  /\ sortThrew' = (sortThrew \/ t.raised # "none")
  /\ lastCalled' = IF t.calls # <<>> THEN t.calls[1].view ELSE lastCalled
  /\ lastDepthView' = IF t.calls # <<>> /\ t.calls[1].outcome = "sorted"
                      THEN t.calls[1].view ELSE lastDepthView

\* runSort was called with a view of at least MinProjLen entries.
FullViewCalled(cs) == \E k \in DOMAIN cs : cs[k].proj.len >= MinProjLen

\* ------------------------------------------------- onmessage, type 'ply'
\* The 'buffer' message with the buffer in the transfer list.
CanonicalReadyTransferred(buf, save) ==
  [type |-> "buffer", buffer |-> buf, save |-> ToBoolean(save), transfer |-> TRUE]

\* ctx.postMessage({ type: 'buffer', buffer, save: Boolean(msg.save) }): no
\* transfer list, the buffer is copied.
CanonicalReady(buf, save) ==
  [type |-> "buffer", buffer |-> buf, save |-> ToBoolean(save), transfer |-> FALSE]

\* The handler without `vertexCount = 0` before runSort(viewProj).
OnPlyNoReset(msg, src, vc, view, lastP, lastVC) ==
  LET r == RunSort(src, vc, view, lastP, lastVC)
      d == Decoded[msg.buffer]
  IN [calls |-> << CallRec("ply", src, vc, view, lastP, lastVC, r) >>,
      lastProj |-> r.lastProj, lastVertexCount |-> r.lastVertexCount,
      sourceBuffer |-> IF d.ok THEN d.out ELSE src,
      vertexCount |-> IF d.ok THEN Rows(d.out) ELSE vc,
      posted |-> r.posted \o (IF d.ok THEN << CanonicalReady(d.out, msg.save) >>
                              ELSE <<>>),
      raised |-> IF d.ok THEN "none"
                 ELSE IF d.error = "RangeError" THEN "RangeError" ELSE "Error"]

\* The handler in the state (src, vc, view, lastP, lastVC): vertexCount = 0,
\* runSort(viewProj) (which returns at its first line), then the conversion;
\* when that throws the handler ends with vertexCount 0 and the old
\* sourceBuffer.
OnPly(msg, src, vc, view, lastP, lastVC) ==
  LET r == RunSort(src, 0, view, lastP, lastVC)
      d == Decoded[msg.buffer]
  IN [calls |-> << CallRec("ply", src, 0, view, lastP, lastVC, r) >>,
      lastProj |-> r.lastProj, lastVertexCount |-> r.lastVertexCount,
      sourceBuffer |-> IF d.ok THEN d.out ELSE src,
      vertexCount |-> IF d.ok THEN Rows(d.out) ELSE 0,
      posted |-> r.posted \o (IF d.ok THEN << CanonicalReady(d.out, msg.save) >>
                              ELSE <<>>),
      raised |-> IF d.ok THEN "none"
                 ELSE IF d.error = "RangeError" THEN "RangeError" ELSE "Error"]

\* ------------------------------------------------------------------ actions
Init ==
  /\ sourceBuffer = NullBuffer
  /\ vertexCount = 0
  /\ viewProj = [id |-> 0, len |-> 0, axis |-> NoAxis]
  /\ lastProj = EmptyProj
  /\ lastVertexCount = -1
  /\ sortRunning = FALSE
  /\ timers = <<>>
  /\ nMsgs = 0
  /\ calls = <<>>
  /\ posted = <<>>
  /\ raised = "none"
  /\ sortThrew = FALSE
  /\ lastCalled = 0
  /\ lastDepthView = 0
  /\ stale = {}
  /\ prevView = [id |-> 0, len |-> 0, axis |-> NoAxis]
  /\ vcKept = TRUE
  /\ vcSame = TRUE
  /\ inbound = NoMessage
  /\ freshCount = FALSE
  /\ arg = <<>>
  /\ result = <<>>
  /\ lastSplat = NoPayload
  /\ lastDepth = NoPayload
  /\ MainIdle
  /\ LoaderIdle

\* onmessage, msg.type === 'view'
RecvView ==
  /\ nMsgs < MaxMsgs
  /\ \E m \in ViewMatrices :
     \E view \in {[id |-> nMsgs + 1, len |-> m.len, axis |-> m.axis]} :
     \E t \in {ThrottledSort(sortRunning, timers, view, sourceBuffer,
                             vertexCount, lastProj, lastVertexCount)} :
       /\ inbound' = PostViewProjection(m)
       /\ viewProj' = view
       /\ sortRunning' = t.sortRunning
       /\ timers' = t.timers
       /\ lastProj' = t.lastProj
       /\ lastVertexCount' = t.lastVertexCount
       /\ SchedulerHistory(t)
       /\ freshCount' = (freshCount /\ ~FullViewCalled(t.calls))
  /\ nMsgs' = nMsgs + 1
  /\ stale' = IF sortRunning /\ timers # <<>> /\ Head(timers) # viewProj.id
              THEN stale \cup {viewProj.id} ELSE stale
  /\ prevView' = viewProj
  /\ vcSame' = vcKept
  /\ vcKept' = TRUE
  /\ UNCHANGED <<sourceBuffer, vertexCount>>
  /\ UNCHANGED sideVars

\* onmessage, msg.type === 'buffer'
RecvBuffer ==
  /\ nMsgs < MaxMsgs
  /\ \E buf \in LoadBuffers : \E vc \in VertexCounts(buf) :
       LET msg == PostSplatBuffer(buf, vc)
       IN /\ inbound' = msg
          /\ sourceBuffer' = msg.buffer
          /\ vertexCount' = msg.vertexCount
          /\ vcKept' = (vcKept /\ vc = vertexCount)
          /\ vcSame' = (vcSame /\ vc = vertexCount)
          /\ freshCount' = IF vc = vertexCount THEN freshCount ELSE vc > 0
  /\ nMsgs' = nMsgs + 1
  /\ calls' = <<>>
  /\ posted' = <<>>
  /\ raised' = "none"
  /\ UNCHANGED <<viewProj, lastProj, lastVertexCount, sortRunning, timers,
                 sortThrew, lastCalled, lastDepthView, stale, prevView>>
  /\ UNCHANGED histVars
  /\ UNCHANGED sideVars

\* onmessage, msg.type === 'ply', for the messages msgs.
RecvPlyOf(msgs) ==
  /\ nMsgs < MaxMsgs
  /\ \E msg \in msgs :
     \E h \in {OnPly(msg, sourceBuffer, vertexCount, viewProj, lastProj,
                     lastVertexCount)} :
       /\ inbound' = msg
       /\ calls' = h.calls
       /\ lastProj' = h.lastProj
       /\ lastVertexCount' = h.lastVertexCount
       /\ sourceBuffer' = h.sourceBuffer
       /\ vertexCount' = h.vertexCount
       /\ posted' = h.posted
       /\ raised' = h.raised
       /\ vcKept' = (vcKept /\ vertexCount = 0 /\ h.vertexCount = 0)
       /\ vcSame' = (vcSame /\ vertexCount = 0 /\ h.vertexCount = 0)
       /\ lastSplat' = LastPosted(h.posted, "splat", sourceBuffer, lastSplat)
       /\ lastDepth' = LastPosted(h.posted, "depth", sourceBuffer, lastDepth)
  /\ nMsgs' = nMsgs + 1
  /\ freshCount' = FALSE
  /\ UNCHANGED <<viewProj, sortRunning, timers, sortThrew, lastCalled,
                 lastDepthView, stale, prevView>>
  /\ UNCHANGED sideVars

RecvPly == RecvPlyOf(PlyFiles)

\* The oldest pending setTimeout(..., 0) callback runs.
TimerFire ==
  /\ timers # <<>>
  /\ \E t \in {TimerCallback(Head(timers), Tail(timers), viewProj,
                              sourceBuffer, vertexCount, lastProj,
                              lastVertexCount)} :
       /\ sortRunning' = t.sortRunning
       /\ timers' = t.timers
       /\ lastProj' = t.lastProj
       /\ lastVertexCount' = t.lastVertexCount
       /\ SchedulerHistory(t)
       /\ freshCount' = (freshCount /\ ~FullViewCalled(t.calls))
  /\ inbound' = NoMessage
  /\ UNCHANGED <<sourceBuffer, vertexCount, viewProj, nMsgs, stale, prevView,
                 vcKept, vcSame>>
  /\ UNCHANGED sideVars

Next == RecvView \/ RecvBuffer \/ RecvPly \/ TimerFire

Spec == Init /\ [][Next]_vars

\* The event loop runs every pending zero-delay timer.
FairSpec == Spec /\ WF_vars(TimerFire)

\* ------------------------------------------------------- decoding behaviours
\* The worker after: load BufPair with vertexCount 2, a 16-entry view (sorted),
\* its timer, load BufPair with vertexCount 1.
LoadedView == [id |-> 2, len |-> 16, axis |-> <<0, 0, 8>>]

LoadedState ==
  /\ sourceBuffer = BufPair
  /\ vertexCount = 1
  /\ viewProj = LoadedView
  /\ lastProj = Slice(LoadedView)
  /\ lastVertexCount = 2
  /\ sortRunning = FALSE
  /\ timers = <<>>
  /\ nMsgs = 3
  /\ calls = <<>>
  /\ posted = <<>>
  /\ raised = "none"
  /\ sortThrew = FALSE
  /\ lastCalled = 2
  /\ lastDepthView = 2
  /\ stale = {}
  /\ prevView = [id |-> 0, len |-> 0, axis |-> NoAxis]
  /\ vcKept = FALSE
  /\ vcSame = FALSE
  /\ inbound = PostSplatBuffer(BufPair, 1)
  /\ freshCount = TRUE
  /\ arg = <<>>
  /\ result = <<>>
  /\ lastSplat = [vertexCount |-> 2, src |-> BufPair]
  /\ lastDepth = [vertexCount |-> 2, src |-> BufPair]
  /\ MainIdle
  /\ LoaderIdle

\* Decode-file messages only, to a new worker or to the loaded one.
DecodeInit == Init \/ LoadedState

DecodeFile == RecvPlyOf(AllPlyMessages)

DecodeNext == DecodeFile

DecodeSpec == DecodeInit /\ [][DecodeNext]_vars

\* ------------------------------------------------------- packing behaviours
\* float32 patterns of the modelled records.
F32Zero == F32(0, 0, 0)
F32NegZero == F32(1, 0, 0)
F32One == F32(0, 127, 0)
F32Half == F32(0, 126, 0)
F32Two == F32(0, 128, 0)
F32OneAndHalf == F32(0, 127, 2 ^ 22)
F32NegTwoAndHalf == F32(1, 128, 2 ^ 21)
F32Tiny == F32(0, 0, 1)                  \* the smallest subnormal
F32Max == F32(0, 254, 2 ^ 23 - 1)        \* the largest finite float32
F32Inf == F32(0, 255, 0)
F32QuietNaN == F32(0, 255, 2 ^ 22)       \* 0x7fc00000
F32SignalNaN == F32(0, 255, 2 ^ 21)      \* 0x7fa00000
F32PayloadNaN == F32(1, 255, 2 ^ 22 + 1) \* 0xffc00001
F32Pow(k) == F32(0, 127 + k, 0)          \* 2^k

Rec(pos, scale, rgba, rot) ==
  [pos |-> pos, scale |-> scale, rgba |-> rgba, rot |-> rot]

\* Canonical records at the level of their bytes.
PackRecords ==
  << Rec(<<F32One, F32NegTwoAndHalf, F32Zero>>, <<F32One, F32One, F32One>>,
         <<1, 2, 3, 4>>, <<255, 128, 128, 128>>),
     Rec(<<F32NegZero, F32Tiny, F32Max>>, <<F32Half, F32Two, F32OneAndHalf>>,
         <<255, 0, 128, 7>>, <<192, 192, 128, 128>>),
     Rec(<<F32Inf, F32One, F32One>>, <<F32Pow(-7), F32Pow(-7), F32Pow(-7)>>,
         <<0, 0, 0, 255>>, FallbackRot),
     Rec(<<F32QuietNaN, F32Zero, F32Zero>>, <<F32Pow(6), F32Pow(6), F32Pow(6)>>,
         <<9, 8, 7, 6>>, <<255, 128, 128, 128>>),
     Rec(<<F32SignalNaN, F32One, F32Two>>, <<F32One, F32One, F32One>>,
         <<1, 1, 1, 1>>, <<255, 128, 128, 128>>),
     Rec(<<F32One, F32PayloadNaN, F32Two>>, <<F32One, F32Half, F32One>>,
         <<2, 2, 2, 2>>, <<255, 128, 128, 128>>),
     Rec(<<F32Half, F32Half, F32Half>>, <<F32Pow(-25), F32Pow(-25), F32Pow(-25)>>,
         <<3, 3, 3, 3>>, <<255, 128, 128, 128>>),
     Rec(<<F32Two, F32Two, F32Two>>, <<F32OneAndHalf, F32Half, F32Two>>,
         <<4, 4, 4, 4>>, FallbackRot) >>

\* A canonical buffer of the given records.
PackBuffer(recs) == [byteLength |-> ROW_BYTES * Len(recs), recs |-> recs]

\* Buffers of one record, and of two different records out of the first five.
PackBuffers ==
  {PackBuffer(<<PackRecords[i]>>) : i \in DOMAIN PackRecords}
  \cup {PackBuffer(<<PackRecords[p[1]], PackRecords[p[2]]>>) :
          p \in {q \in (1 .. 5) \X (1 .. 5) : q[1] # q[2]}}

\* The worker holds a canonical buffer and a vertex count that the buffer
\* covers (0, a prefix, or all of it).
PackInit ==
  /\ sourceBuffer \in PackBuffers
  /\ vertexCount \in 0 .. Rows(sourceBuffer)
  /\ viewProj = [id |-> 0, len |-> 0, axis |-> NoAxis]
  /\ lastProj = EmptyProj
  /\ lastVertexCount = -1
  /\ sortRunning = FALSE
  /\ timers = <<>>
  /\ nMsgs = 1
  /\ calls = <<>>
  /\ posted = <<>>
  /\ raised = "none"
  /\ sortThrew = FALSE
  /\ lastCalled = 0
  /\ lastDepthView = 0
  /\ stale = {}
  /\ prevView = [id |-> 0, len |-> 0, axis |-> NoAxis]
  /\ vcKept = FALSE
  /\ vcSame = FALSE
  /\ inbound = NoMessage
  /\ freshCount = (vertexCount > 0)
  /\ arg = <<>>
  /\ result = <<>>
  /\ lastSplat = NoPayload
  /\ lastDepth = NoPayload
  /\ MainIdle
  /\ LoaderIdle

\* postSplatPayload(): the 'splat' message with its packed rows.  The engine
\* chooses the NaN encoding.
PostPayload ==
  /\ \E engine \in NanEncodings :
     \E msgs \in {PostSplatPayload(sourceBuffer, vertexCount)} :
       posted' = [k \in DOMAIN msgs |->
                    msgs[k] @@ [splatData |->
                      [i \in 1 .. vertexCount |->
                         PackedWords(sourceBuffer.recs[i], engine)]]]
  /\ arg' = <<sourceBuffer, vertexCount>>
  /\ result' = <<>>
  /\ UNCHANGED <<sourceBuffer, vertexCount, viewProj, lastProj, lastVertexCount,
                 sortRunning, timers, nMsgs, calls, raised, sortThrew,
                 lastCalled, lastDepthView, stale, prevView, vcKept, vcSame,
                 inbound, freshCount>>
  /\ lastSplat' = LastPosted(posted', "splat", sourceBuffer, lastSplat)
  /\ UNCHANGED lastDepth
  /\ UNCHANGED mainVars
  /\ UNCHANGED loaderVars

PackNext == PostPayload

PackSpec == PackInit /\ [][PackNext]_vars

\* --------------------------------------------------- half-float behaviours
\* The float32 patterns packHalf2x16 is applied to.
HalfPatterns ==
  { F32Zero, F32NegZero, F32Tiny, F32(0, 0, 2 ^ 23 - 1), F32(1, 0, 2 ^ 13),
    F32(0, 50, 0), F32(0, 81, 0), F32(1, 72, 2 ^ 22), F32(0, 102, 2 ^ 23 - 1),
    F32(0, 103, 0), F32(0, 108, 5 * 2 ^ 20), F32(1, 112, 2 ^ 23 - 1),
    F32(0, 113, 0), F32(0, 113, 5355287), F32One, F32(1, 127, 2 ^ 13 - 1),
    F32Pow(2), F32(0, 140, 1851392), F32(0, 141, 2 ^ 23 - 1), F32Pow(15),
    F32(1, 142, 2 ^ 22), F32(0, 142, 8380416), F32(0, 142, 8380417),
    F32Pow(16), F32Max, F32Inf }

HalfInit ==
  /\ Init!1 /\ Init!2 /\ Init!3 /\ Init!4 /\ Init!5 /\ Init!6 /\ Init!7
  /\ Init!8 /\ Init!9 /\ Init!10 /\ Init!11 /\ Init!12 /\ Init!13
  /\ Init!14 /\ Init!15 /\ Init!16 /\ Init!17 /\ Init!18 /\ Init!19
  /\ Init!20
  /\ arg \in HalfPatterns \X HalfPatterns
  /\ result = <<>>
  /\ Init!23 /\ Init!24 /\ Init!25 /\ Init!26

\* packHalf2x16(x, y) of the numbers with the patterns arg.
PackHalf ==
  /\ arg # <<>>
  /\ \E engine \in NanEncodings :
       result' = PackHalf2x16(ReadFloat32(arg[1]), ReadFloat32(arg[2]), engine)
  /\ UNCHANGED <<sourceBuffer, vertexCount, viewProj, lastProj, lastVertexCount,
                 sortRunning, timers, nMsgs, calls, posted, raised, sortThrew,
                 lastCalled, lastDepthView, stale, prevView, vcKept, vcSame,
                 inbound, freshCount, arg>>
  /\ UNCHANGED histVars
  /\ UNCHANGED mainVars
  /\ UNCHANGED loaderVars

HalfNext == PackHalf

HalfSpec == HalfInit /\ [][HalfNext]_vars

\* --------------------------------------------------- main-thread behaviours
\* nextPow2(value)
RECURSIVE Pow2From(_, _)
Pow2From(res, value) ==
  IF res < value THEN Pow2From(2 * res, value) ELSE res

NextPow2(value) == Pow2From(1, value)

\* setSplatData(packed, vertexCount) on the renderer r; packed is the payload
\* of vertexCount rows built from src, 8 words a row.
SetSplatData(r, vc, src) ==
  IF vc <= 0 \/ 8 * vc <= 0
  THEN [r EXCEPT !.instanceCount = 0]
  ELSE [r EXCEPT !.splatCapacity = IF 8 * vc <= @ THEN @ ELSE NextPow2(8 * vc),
                 !.splat = [vertexCount |-> vc, src |-> src],
                 !.instanceCount = vc]

\* setSortedIndices(indices) on the renderer r: a buffer that has to grow is
\* replaced by a zero-filled one, the write covers the first indices.length
\* words and leaves the rest.
SetSortedIndices(r, indices, src) ==
  LET n == Cardinality(DOMAIN indices)
      cap == IF n <= r.indexCapacity THEN r.indexCapacity ELSE NextPow2(n)
  IN IF n <= 0
     THEN [r EXCEPT !.instanceCount = 0]
     ELSE [r EXCEPT !.indexCapacity = cap,
                    !.sortedIndex =
                       [i \in 0 .. cap - 1 |->
                          IF i < n THEN indices[i]
                          ELSE IF n <= r.indexCapacity THEN r.sortedIndex[i]
                          ELSE 0],
                    !.indexFor = [vertexCount |-> n, src |-> src],
                    !.instanceCount = n]

\* worker.onmessage of createSortWorker with the callbacks of main.ts.
Dispatch(r, msg) ==
  IF msg.type = "depth" THEN SetSortedIndices(r, msg.depthIndex, msg.src)
  ELSE IF msg.type = "splat" THEN SetSplatData(r, msg.vertexCount, msg.src)
  ELSE r

\* The worker handles a view-update with the scheduler idle, and the timer
\* of that throttledSort call fires before the next message; what runSort
\* posts is queued for the main thread.
WorkerView ==
  /\ nMsgs < MaxMsgs
  /\ ~sortRunning /\ timers = <<>>
  /\ \E m \in ViewMatrices :
     \E view \in {[id |-> nMsgs + 1, len |-> m.len, axis |-> m.axis]} :
     \E t \in {ThrottledSort(sortRunning, timers, view, sourceBuffer,
                             vertexCount, lastProj, lastVertexCount)} :
     \E u \in {IF t.timers = <<>> THEN t
                ELSE TimerCallback(Head(t.timers), Tail(t.timers), view,
                                   sourceBuffer, vertexCount, t.lastProj,
                                   t.lastVertexCount)} :
       /\ inbound' = PostViewProjection(m)
       /\ viewProj' = view
       /\ sortRunning' = u.sortRunning
       /\ timers' = u.timers
       /\ lastProj' = u.lastProj
       /\ lastVertexCount' = u.lastVertexCount
       /\ SchedulerHistory(t)
       /\ freshCount' = (freshCount /\ ~FullViewCalled(t.calls))
       /\ toMain' = toMain \o [k \in DOMAIN t.posted |->
                                 t.posted[k] @@ [src |-> sourceBuffer]]
  /\ nMsgs' = nMsgs + 1
  /\ prevView' = viewProj
  /\ vcSame' = vcKept
  /\ vcKept' = TRUE
  /\ UNCHANGED <<sourceBuffer, vertexCount, stale, arg, result, renderer,
                 drawn>>
  /\ UNCHANGED loaderVars

\* The main thread handles the oldest worker message.
OnWorkerMessage ==
  /\ toMain # <<>>
  /\ renderer' = Dispatch(renderer, Head(toMain))
  /\ toMain' = Tail(toMain)
  /\ UNCHANGED <<sourceBuffer, vertexCount, viewProj, lastProj, lastVertexCount,
                 sortRunning, timers, nMsgs, calls, posted, raised, sortThrew,
                 lastCalled, lastDepthView, stale, prevView, vcKept, vcSame,
                 inbound, freshCount, arg, result, lastSplat, lastDepth,
                 drawn>>
  /\ UNCHANGED loaderVars

\* render() of a frame: draw(4, instanceCount) reads sorted_indices[0 ..
\* instanceCount - 1]; a read past the buffer gives zero or a word of the
\* buffer.
Render ==
  /\ \E oob \in {0} \cup {renderer.sortedIndex[i] :
                               i \in DOMAIN renderer.sortedIndex} :
       drawn' = [instanceCount |-> renderer.instanceCount,
                 splat |-> renderer.splat,
                 indexFor |-> renderer.indexFor,
                 indices |-> [i \in 0 .. renderer.instanceCount - 1 |->
                                IF i < renderer.indexCapacity
                                THEN renderer.sortedIndex[i] ELSE oob]]
  /\ UNCHANGED <<sourceBuffer, vertexCount, viewProj, lastProj, lastVertexCount,
                 sortRunning, timers, nMsgs, calls, posted, raised, sortThrew,
                 lastCalled, lastDepthView, stale, prevView, vcKept, vcSame,
                 inbound, freshCount, arg, result, lastSplat, lastDepth,
                 toMain, renderer>>
  /\ UNCHANGED loaderVars

MainNext == RecvBuffer \/ WorkerView \/ OnWorkerMessage \/ Render

MainSpec == Init /\ [][MainNext]_vars

\* ------------------------------------------------------ streaming behaviours
MinCapacity == 1024 * 1024
STREAM_UPDATE_VERTEX_STEP == 8192

\* Number(response.headers.get('content-length') || 0)
ContentLengths == {0, 64, MinCapacity, 2 * MinCapacity}

\* value.byteLength of the chunks reader.read() delivers.
ChunkLengths ==
  {32, 100, ROW_BYTES * STREAM_UPDATE_VERTEX_STEP, MinCapacity,
   MinCapacity + 32, 2 * MinCapacity}

MathMax(a, b) == IF a >= b THEN a ELSE b

\* new Uint8Array(n) with its ArrayBuffer: zero-filled; segs lists what was
\* written since, as [at, chunk, len]: len bytes of the chunk-th chunk at
\* offset at.
NewUint8Array(n) == [byteLength |-> n, segs |-> <<>>, detached |-> FALSE]

\* A Uint8Array whose buffer was in the transfer list of a postMessage call.
Detached == [byteLength |-> 0, segs |-> <<>>, detached |-> TRUE]

\* shouldPost of the onChunk callback.
ShouldPost(lastPostedVertexCount, update) ==
  \/ update.done
  \/ lastPostedVertexCount < 0
  \/ update.vertexCount - lastPostedVertexCount >= STREAM_UPDATE_VERTEX_STEP

\* streamSplat stopped by an uncaught TypeError.
StreamThrew(l, chunks) ==
  [loader |-> [l EXCEPT !.chunks = chunks, !.pc = "threw",
                        !.error = "TypeError"],
   updates |-> <<>>]

\* One iteration of the read loop with a chunk of len bytes, the onChunk
\* callback included.  grown.set(data) and data.set(value, bytesRead) throw
\* a TypeError on a detached array; postSplatBuffer detaches data.buffer.
StreamRead(l, len) ==
  LET chunks == Append(l.chunks, len)
      grow == l.bytesRead + len > l.data.byteLength
      grown == NewUint8Array(MathMax(l.data.byteLength * 2, l.bytesRead + len))
      data1 == IF grow THEN [grown EXCEPT !.segs = l.data.segs] ELSE l.data
      data2 == [data1 EXCEPT !.segs = Append(@, [at |-> l.bytesRead,
                                                  chunk |-> Len(chunks),
                                                  len |-> len])]
      bytesRead == l.bytesRead + len
      update == [bytesRead |-> bytesRead, totalBytes |-> l.totalBytes,
                 vertexCount |-> bytesRead \div ROW_BYTES,
                 byteLength |-> data2.byteLength, segs |-> data2.segs,
                 done |-> FALSE]
      post == ShouldPost(l.lastPostedVertexCount, update)
  IN IF grow /\ l.data.detached THEN StreamThrew(l, chunks)
     ELSE IF data1.detached THEN StreamThrew(l, chunks)
     ELSE [loader |-> [l EXCEPT !.chunks = chunks,
                                !.data = IF post THEN Detached ELSE data2,
                                !.bytesRead = bytesRead,
                                !.lastPostedVertexCount =
                                   IF post THEN update.vertexCount ELSE @],
           updates |-> << update @@ [transferred |-> post] >>]

\* The statements after the loop: data.buffer.slice(0, bytesRead) throws a
\* TypeError on a detached buffer, and so does new Uint8Array(finalBuffer)
\* once the callback has transferred finalBuffer.
StreamEnd(l) ==
  LET update == [bytesRead |-> l.bytesRead, totalBytes |-> l.totalBytes,
                 vertexCount |-> l.bytesRead \div ROW_BYTES,
                 byteLength |-> l.bytesRead, segs |-> l.data.segs,
                 done |-> TRUE]
      post == ShouldPost(l.lastPostedVertexCount, update)
  IN IF l.data.detached THEN StreamThrew(l, l.chunks)
     ELSE [loader |-> [l EXCEPT !.pc = IF post THEN "threw" ELSE "returned",
                                !.error = IF post THEN "TypeError" ELSE @,
                                !.returned = IF post THEN @ ELSE l.data.segs,
                                !.lastPostedVertexCount =
                                   IF post THEN update.vertexCount ELSE @],
           updates |-> << update @@ [transferred |-> post] >>]

\* streamSplat(url, onChunk) up to the first reader.read().
Fetch ==
  /\ loader.pc = "idle"
  /\ \E contentLength \in ContentLengths :
       loader' = [pc |-> "reading",
                  totalBytes |-> IF contentLength > 0 THEN contentLength
                                 ELSE "null",
                  data |-> NewUint8Array(MathMax(contentLength, MinCapacity)),
                  bytesRead |-> 0, lastPostedVertexCount |-> -1,
                  chunks |-> <<>>, returned |-> <<>>, error |-> "none"]
  /\ UNCHANGED updates
  /\ UNCHANGED <<sourceBuffer, vertexCount, viewProj, lastProj, lastVertexCount,
                 sortRunning, timers, nMsgs, calls, posted, raised, sortThrew,
                 lastCalled, lastDepthView, stale, prevView, vcKept, vcSame,
                 inbound, freshCount, arg, result, lastSplat, lastDepth>>
  /\ UNCHANGED mainVars

\* reader.read() resolves with a chunk.
ReadChunk ==
  /\ loader.pc = "reading"
  /\ Len(loader.chunks) < MaxChunks
  /\ \E len \in ChunkLengths :
     \E r \in {StreamRead(loader, len)} :
       /\ loader' = r.loader
       /\ updates' = updates \o r.updates
  /\ UNCHANGED <<sourceBuffer, vertexCount, viewProj, lastProj, lastVertexCount,
                 sortRunning, timers, nMsgs, calls, posted, raised, sortThrew,
                 lastCalled, lastDepthView, stale, prevView, vcKept, vcSame,
                 inbound, freshCount, arg, result, lastSplat, lastDepth>>
  /\ UNCHANGED mainVars

\* reader.read() resolves with done.
EndOfStream ==
  /\ loader.pc = "reading"
  /\ \E r \in {StreamEnd(loader)} :
       /\ loader' = r.loader
       /\ updates' = updates \o r.updates
  /\ UNCHANGED <<sourceBuffer, vertexCount, viewProj, lastProj, lastVertexCount,
                 sortRunning, timers, nMsgs, calls, posted, raised, sortThrew,
                 lastCalled, lastDepthView, stale, prevView, vcKept, vcSame,
                 inbound, freshCount, arg, result, lastSplat, lastDepth>>
  /\ UNCHANGED mainVars

LoaderNext == Fetch \/ ReadChunk \/ EndOfStream

LoaderSpec == Init /\ [][LoaderNext]_vars

TypeOK ==
  /\ sortRunning \in BOOLEAN
  /\ nMsgs \in 0 .. MaxMsgs
  /\ Len(timers) <= MaxMsgs

\* ---------------------------------------------------------- claim vocabulary
\* The messages of one type posted by the last step.
PostedOf(type) == {k \in DOMAIN posted : posted[k].type = type}

\* The runSort calls the scheduler made in the last step.
SchedCalls == {k \in DOMAIN calls : calls[k].by = "sched"}

\* The depth key as the specification words it: dot(forward axis, position)
\* scaled by 4096 and truncated; a row outside the buffer has key 0.
SpecKey(i) ==
  IF i < Len(sourceBuffer.pts)
  THEN LET n == Dot3(lastProj.axis, sourceBuffer.pts[i + 1]) * DepthScale
           d == AxisDen * PosDen
       IN IF n >= 0 THEN n \div d ELSE -((-n) \div d)
  ELSE 0

SpecKeys == {SpecKey(i) : i \in 0 .. vertexCount - 1}

\* trunc((key - min) * (65535 / (max - min || 1)))
SpecQuantKey(i) ==
  LET lo == CHOOSE x \in SpecKeys : \A y \in SpecKeys : x <= y
      hi == CHOOSE x \in SpecKeys : \A y \in SpecKeys : y <= x
      span == IF hi - lo = 0 THEN 1 ELSE hi - lo
  IN ((SpecKey(i) - lo) * BucketMax) \div span

\* dot(forward axis, position) of row i, unscaled.
SpecDot(i) ==
  IF i < Len(sourceBuffer.pts)
  THEN Dot3(lastProj.axis, sourceBuffer.pts[i + 1]) ELSE 0

\* -------------------------------------------------------------------- C1
\* C1: at most one sort is in progress and at most one re-run is pending:
\* there is never more than one pending timer, a pending timer implies
\* sortRunning, and a view message that arrives while sortRunning is set
\* makes throttledSort call runSort not at all.
C1_OneSortOnePending ==
  [][ /\ Len(timers') <= 1
      /\ (timers' # <<>> => sortRunning')
      /\ (sortRunning /\ nMsgs' # nMsgs =>
            \A k \in DOMAIN calls' : calls'[k].by # "sched") ]_vars

\* A view message arrived while a sort was running and was only recorded.
C1_Witness ==
  /\ sortRunning /\ Len(timers) = 1
  /\ Head(timers) # viewProj.id
  /\ calls = <<>>
  /\ prevView.id = Head(timers)

\* -------------------------------------------------------------------- C2
\* C2: provided no runSort call throws and pending timers fire, the
\* scheduler ends idle and the last view throttledSort passed to runSort is
\* the view of the last message received.
C2_FinalViewSorted ==
  <>[](sortThrew \/ (~sortRunning /\ timers = <<>> /\ lastCalled = viewProj.id))

\* Idle again after a view that had to wait for the timer was run.
C2_Witness ==
  /\ ~sortRunning /\ timers = <<>> /\ ~sortThrew
  /\ lastCalled = viewProj.id
  /\ stale # {}
  /\ nMsgs = MaxMsgs

\* -------------------------------------------------------------------- C3
\* C3: when the pending timer fires after one or more views arrived during
\* the run, exactly one runSort call is made, with the most recent view;
\* when no view arrived, none is made; and the scheduler never passes to
\* runSort a view that was replaced while it waited for the timer.
C3_Coalescing ==
  [][ /\ (nMsgs' = nMsgs /\ timers # <<>> =>
            IF Head(timers) # viewProj.id
            THEN /\ Len(calls') = 1
                 /\ calls'[1].by = "sched"
                 /\ calls'[1].view = viewProj.id
            ELSE calls' = <<>>)
      /\ \A k \in DOMAIN calls' :
            calls'[k].by = "sched" => calls'[k].view \notin stale' ]_vars

\* The timer has just run the newest view; the view before it was dropped.
C3_Witness ==
  /\ SchedCalls # {}
  /\ calls[1].view = viewProj.id
  /\ prevView.id \in stale
  /\ timers = << viewProj.id >>

\* -------------------------------------------------------------------- C4
\* C4: every depth message carries a permutation of [0, vertexCount): the
\* array has vertexCount slots and every index occurs in it.
C4_Bijection ==
  \A k \in PostedOf("depth") :
    LET m == posted[k]
    IN /\ m.vertexCount = vertexCount
       /\ DOMAIN m.depthIndex = 0 .. vertexCount - 1
       /\ {m.depthIndex[j] : j \in DOMAIN m.depthIndex} = 0 .. vertexCount - 1

\* A depth message for four rows that is not the identity.
C4_Witness ==
  \E k \in PostedOf("depth") :
    /\ posted[k].vertexCount = 4
    /\ \E j \in DOMAIN posted[k].depthIndex : posted[k].depthIndex[j] # j

\* -------------------------------------------------------------------- C5
\* C5: read in permutation order, the quantized depth key never decreases,
\* and every quantized key lies in [0, 65535].
C5_MonotoneKeys ==
  \A k \in PostedOf("depth") :
    LET d == posted[k].depthIndex
    IN /\ \A i \in 0 .. vertexCount - 1 : SpecQuantKey(i) \in 0 .. BucketMax
       /\ \A j \in DOMAIN d :
            j + 1 \in DOMAIN d => SpecQuantKey(d[j]) <= SpecQuantKey(d[j + 1])

\* A depth message over three distinct quantized keys.
C5_Witness ==
  \E k \in PostedOf("depth") :
    Cardinality({SpecQuantKey(i) : i \in 0 .. vertexCount - 1}) >= 3

C7_Stable ==
  \A k \in PostedOf("depth") :
    LET d == posted[k].depthIndex
    IN /\ \A j1, j2 \in DOMAIN d :
            (j1 < j2 /\ SpecQuantKey(d[j1]) = SpecQuantKey(d[j2])) => d[j1] < d[j2]
       /\ ((vertexCount <= Len(sourceBuffer.pts)
              /\ \A i \in 1 .. vertexCount : sourceBuffer.pts[i] = sourceBuffer.pts[1])
            => \A j \in DOMAIN d : d[j] = j)

\* A depth message for three rows at one position.
C7_Witness ==
  \E k \in PostedOf("depth") :
    /\ sourceBuffer = BufSame /\ vertexCount = 3
    /\ posted[k].depthIndex = [j \in 0 .. 2 |-> j]

\* -------------------------------------------------------------------- C8
\* dot of two forward axes within 0.01 of 1, as the specification words the
\* near-identical view.
SpecDotNearOne(a, b) ==
  LET d == Dot3(a, b) - AxisDen * AxisDen
  IN SkipTolInv * (IF d < 0 THEN -d ELSE d) < AxisDen * AxisDen

\* A runSort call made under one of the four skip conditions.
SkipCondition(c) ==
  \/ IsNull(c.src)
  \/ c.vc <= 0
  \/ c.proj.len < MinProjLen
  \/ (c.lastVC = c.vc /\ c.lastProj.len >= MinProjLen
        /\ SpecDotNearOne(c.lastProj.axis, c.proj.axis))

\* C8: a runSort called under a skip condition posts neither a payload nor
\* a depth message, raises no error and leaves lastProj and
\* lastVertexCount as they were.
C8_SkipIsNoOp ==
  [][ \A k \in DOMAIN calls' :
        SkipCondition(calls'[k]) =>
          /\ calls'[k].outcome # "threw"
          /\ \A j \in DOMAIN posted' : posted'[j].type \notin {"splat", "depth"}
          /\ lastProj' = lastProj
          /\ lastVertexCount' = lastVertexCount ]_vars

SpecCosineAbove(a, b) ==
  /\ Dot3(a, b) > 0
  /\ Dot3(a, b) * Dot3(a, b) * 100 * 100 > 99 * 99 * Dot3(a, a) * Dot3(b, b)

\* A runSort call that reached the near-identical test with the vertex
\* count of the last completed sort.
ReachedSkipTest(c) ==
  /\ c.outcome \in {"skip", "sorted"}
  /\ c.lastVC = c.vc

SpecVertexLine(file) ==
  LET hit == {k \in DOMAIN file.lines :
                file.lines[k].kind = "element" /\ file.lines[k].name = "vertex"}
  IN IF hit = {} THEN 0 ELSE CHOOSE k \in hit : \A h \in hit : k <= h

\* The properties the vertex element declares.
SpecVertexProps(file) ==
  LET v == SpecVertexLine(file)
  IN {file.lines[k].name : k \in
        {i \in DOMAIN file.lines :
           /\ v > 0 /\ i > v
           /\ file.lines[i].kind = "property"
           /\ \A h \in v + 1 .. i : file.lines[h].kind # "element"}}

SpecDeclaredCount(file) == file.lines[SpecVertexLine(file)].count

SpecDeclares(file, name) ==
  \E k \in DOMAIN file.lines :
    file.lines[k].kind = "element" /\ file.lines[k].name = name

SpecTerminatorInWindow(file) ==
  file.term >= 0 /\ file.term + HeaderEndLen <= HeaderWindow

SpecCompressed(file) == "packed_position" \in SpecVertexProps(file)

\* The last step handled a decode-file message.
DecodeStep == inbound.type = "ply"

\* ... and its conversion returned.
DecodeReturned == DecodeStep /\ raised = "none"

\* The input row (1-based) that has the position of output record j.
SpecSourceRow(file, j) ==
  CHOOSE r \in DOMAIN file.rows :
    <<file.rows[r].x, file.rows[r].y, file.rows[r].z>> = sourceBuffer.pts[j]

\* exp(scale_0) * exp(scale_1) * exp(scale_2) * sigmoid(opacity) of row r.
SpecImportance(file, r) ==
  LET row == file.rows[r]
  IN Mul(Mul(Mul(Exp(row.scale_0 * Milli), Exp(row.scale_1 * Milli)),
             Exp(row.scale_2 * Milli)),
         Sigmoid(row.opacity))

\* -------------------------------------------------------------------- C11
\* C11: a runSort call that passes the initial guards posts a payload
\* ('splat') message if and only if vertexCount differs from
\* lastVertexCount.
C11_PayloadIffCountChanged ==
  \A k \in DOMAIN calls :
    calls[k].outcome # "guard" =>
      ((PostedOf("splat") # {}) <=> (calls[k].vc # calls[k].lastVC))

\* -------------------------------------------------------------------- C12
\* C12: after a 'buffer' message set vertexCount to a new positive value, the
\* first runSort call the scheduler makes with a view of at least 16 entries
\* posts a depth message that carries the new vertexCount.
C12_NewCountSorted ==
  [][ \A k \in DOMAIN calls' :
        (freshCount /\ calls'[k].by = "sched"
           /\ calls'[k].proj.len >= MinProjLen)
        => \E j \in DOMAIN posted' :
             /\ posted'[j].type = "depth"
             /\ posted'[j].vertexCount = vertexCount ]_vars

\* -------------------------------------------------------------------- C13
\* C13: a decode-file message whose file has no header terminator within
\* the first 10240 bytes, declares no vertex element, or is compressed and
\* declares no chunk element, ends in an error: no 'buffer' message is
\* posted and the worker's sourceBuffer is not replaced.
C13_MalformedRejected ==
  [][ (inbound'.type = "ply" /\ nMsgs' # nMsgs
       /\ LET file == inbound'.buffer
          IN \/ ~SpecTerminatorInWindow(file)
             \/ ~SpecDeclares(file, "vertex")
             \/ (SpecCompressed(file) /\ ~SpecDeclares(file, "chunk")))
      => /\ raised' # "none"
         /\ \A k \in DOMAIN posted' : posted'[k].type # "buffer"
         /\ sourceBuffer' = sourceBuffer ]_vars

\* A file whose terminator starts one byte too late was rejected while the
\* buffer of an earlier conversion is held.
C13_Witness ==
  /\ DecodeStep
  /\ inbound.buffer.term = HeaderWindow - HeaderEndLen + 1
  /\ raised = "Error"
  /\ posted = <<>>
  /\ ~IsNull(sourceBuffer)

C15_SourceBufferWellFormed ==
  ~IsNull(sourceBuffer) =>
    /\ sourceBuffer.byteLength % ROW_BYTES = 0
    /\ vertexCount * ROW_BYTES = sourceBuffer.byteLength

\* -------------------------------------------------------------------- C16
\* C16 as stated: every buffer that crosses the worker boundary, inbound or
\* outbound, is in the transfer list of its postMessage call.
C16_AllHandedOff ==
  /\ inbound.type \in {"buffer", "ply"} => inbound.transfer
  /\ \A k \in DOMAIN posted : posted[k].transfer

\* C16: inbound buffers and the payload and depth buffers are transferred;
\* the canonical buffer of a 'buffer' message is posted without a transfer
\* list, and the worker goes on holding it as its sourceBuffer.
C16_HandoffExceptCanonical ==
  /\ inbound.type \in {"buffer", "ply"} => inbound.transfer
  /\ \A k \in DOMAIN posted :
       /\ posted[k].type \in {"splat", "depth"} => posted[k].transfer
       /\ posted[k].type = "buffer" =>
            /\ ~posted[k].transfer
            /\ sourceBuffer = posted[k].buffer
            /\ ~IsNull(sourceBuffer)

\* A decode-file message was answered with the canonical buffer.
C16_Witness ==
  /\ inbound.type = "ply"
  /\ PostedOf("buffer") # {}
  /\ vertexCount > 0
  /\ lastVertexCount > 0

\* -------------------------------------------------------------------- C17
\* C17: a standard file of 3 vertices that declares exactly x, y, z,
\* scale_0..2, rot_0..3 and opacity is converted: a 96-byte canonical buffer
\* is posted.
C17_NoColourDecodes ==
  (/\ DecodeStep
   /\ SpecTerminatorInWindow(inbound.buffer)
   /\ SpecVertexProps(inbound.buffer)
        = {"x", "y", "z", "scale_0", "scale_1", "scale_2",
           "rot_0", "rot_1", "rot_2", "rot_3", "opacity"}
   /\ SpecDeclaredCount(inbound.buffer) = 3
   /\ Len(inbound.buffer.rows) = 3)
  => /\ raised = "none"
     /\ \E k \in DOMAIN posted :
          posted[k].type = "buffer" /\ posted[k].buffer.byteLength = 96

\* -------------------------------------------------------------------- C18
\* C18: a standard file with positions, a colour and all declared rows but
\* no opacity property is converted, with or without scale and rotation, and
\* every record has alpha 255; with an opacity property the alpha of a
\* record is sigmoid(opacity) * 255 of its row.
C18_AlphaWithoutOpacity ==
  LET file == inbound.buffer
      props == SpecVertexProps(file)
      complete == /\ SpecTerminatorInWindow(file)
                  /\ SpecDeclares(file, "vertex")
                  /\ ~SpecCompressed(file)
                  /\ {"x", "y", "z"} \subseteq props
                  /\ ({"f_dc_0", "f_dc_1", "f_dc_2"} \subseteq props
                      \/ {"red", "green", "blue"} \subseteq props)
                  /\ SpecDeclaredCount(file) = Len(file.rows)
  IN DecodeStep /\ complete =>
       /\ "opacity" \notin props =>
            /\ raised = "none"
            /\ \A j \in DOMAIN sourceBuffer.recs :
                 sourceBuffer.recs[j].rgba[4] = 255
       /\ "opacity" \in props /\ raised = "none" =>
            \A j \in DOMAIN sourceBuffer.recs :
              sourceBuffer.recs[j].rgba[4]
                = ToUint8Clamped(
                    Sigmoid(file.rows[SpecSourceRow(file, j)].opacity) * 255,
                    Milli)

\* -------------------------------------------------------------------- C19
\* C19: the standard decoder's records are the input rows, each exactly
\* once, in order of non-increasing importance, rows of equal importance in
\* file order; without scale fields, and in the compressed decoder, record j
\* is built from row j.
C19_ImportanceOrder ==
  DecodeReturned =>
    LET file == inbound.buffer
        n == Len(sourceBuffer.pts)
        src(j) == SpecSourceRow(file, j)
    IN /\ n = SpecDeclaredCount(file)
       /\ SpecCompressed(file) =>
            \A j \in 1 .. n :
              sourceBuffer.pts[j] = CompressedRecord(file, j - 1).pos
       /\ ~SpecCompressed(file) =>
            /\ {src(j) : j \in 1 .. n} = 1 .. n
            /\ "scale_0" \notin SpecVertexProps(file) =>
                 \A j \in 1 .. n : src(j) = j
            /\ "scale_0" \in SpecVertexProps(file) =>
                 \A j \in 1 .. n - 1 :
                   \/ SpecImportance(file, src(j))
                        > SpecImportance(file, src(j + 1))
                   \/ /\ SpecImportance(file, src(j))
                           = SpecImportance(file, src(j + 1))
                      /\ src(j) < src(j + 1)

\* A file was converted whose most important row is not the first and whose
\* other two rows have the same importance.
C19_Witness ==
  /\ DecodeReturned
  /\ Len(sourceBuffer.pts) = 3
  /\ "scale_0" \in SpecVertexProps(inbound.buffer)
  /\ SpecSourceRow(inbound.buffer, 1) = 2
  /\ SpecSourceRow(inbound.buffer, 2) = 1
  /\ SpecImportance(inbound.buffer, 1) = SpecImportance(inbound.buffer, 3)

\* -------------------------------------------------------------------- C20
\* C20: a record decoded from a standard file without scale and rotation
\* fields has scale 0.01 on the three axes, and its rotation bytes
\* dequantize to w within 1/128 of 1 and to x = y = z = 0.
C20_FallbackIdentity ==
  (DecodeReturned /\ ~SpecCompressed(inbound.buffer)
     /\ "scale_0" \notin SpecVertexProps(inbound.buffer))
  => \A j \in DOMAIN sourceBuffer.recs :
       LET rec == sourceBuffer.recs[j]
       IN /\ rec.scale = <<FallbackScale, FallbackScale, FallbackScale>>
          /\ 128 - DequantRot(rec.rot[1]) <= 1
          /\ DequantRot(rec.rot[2]) = 0
          /\ DequantRot(rec.rot[3]) = 0
          /\ DequantRot(rec.rot[4]) = 0

\* -------------------------------------------------------------------- C21
\* Bit k of a 32-bit word held as <<high half, low half>>.
SpecBit(w, k) ==
  IF k < 16 THEN (w[2] \div (2 ^ k)) % 2 ELSE (w[1] \div (2 ^ (k - 16))) % 2

\* The unsigned number in bits from .. to of the word.
RECURSIVE SpecField(_, _, _)
SpecField(w, from, to) ==
  IF from > to THEN 0 ELSE SpecBit(w, from) + 2 * SpecField(w, from + 1, to)

\* v is min + (q / qMax) * (max - min) to the nearest unit, and inside
\* [min, max] when min <= max.
SpecDequantized(v, min, max, q, qMax) ==
  /\ 2 * Abs((v - min) * qMax - q * (max - min)) <= qMax
  /\ min <= max => (min <= v /\ v <= max)

PayloadStep == posted # <<>> /\ posted[1].type = "splat" /\ arg # <<>>

\* The six covariance terms (upper triangle, row by row) of a record:
\* entry (i, j) of the product of the transposed scale-rotation matrix with
\* the matrix.
SpecCovariance(rec) ==
  LET m == ScaleRotMatrix(rec.scale, rec.rot)
      term(i, j) == DyAdd(DyAdd(DyMul(m[i], m[j]), DyMul(m[3 + i], m[3 + j])),
                          DyMul(m[6 + i], m[6 + j]))
  IN << term(1, 1), term(1, 2), term(1, 3), term(2, 2), term(2, 3), term(3, 3) >>

\* The word that holds 4 * a in its low and 4 * b in its high half.
SpecCovWord(a, b) ==
  PackHalf2x16(NumOfDy(DyMul(Dy(4, 0), a)), NumOfDy(DyMul(Dy(4, 0), b)), "quiet")

\* Everything the claim says of the packed rows except the position words.
SpecPackedLayout ==
  LET msg == posted[1]
  IN /\ Len(msg.splatData) = msg.vertexCount
     /\ msg.transfer
     /\ sourceBuffer = arg[1] /\ ~IsNull(sourceBuffer)
     /\ \A i \in 1 .. msg.vertexCount :
          LET w == msg.splatData[i]
              rec == arg[1].recs[i]
              cov == SpecCovariance(rec)
          IN /\ Len(w) = 8
             /\ w[4] = <<0, 0>>
             /\ w[5] = SpecCovWord(cov[1], cov[2])
             /\ w[6] = SpecCovWord(cov[3], cov[4])
             /\ w[7] = SpecCovWord(cov[5], cov[6])
             /\ w[8] = rec.rgba

\* C22: the payload has 8 words per point; words 0..2 are the bit patterns
\* of the record's position floats, word 3 is 0, words 4..6 hold the
\* covariance halves and the bytes of word 7 are the record's RGBA bytes;
\* the source buffer is unchanged and stays with the worker, the packed
\* buffer is transferred.
C22_PackedLayout ==
  PayloadStep =>
    /\ SpecPackedLayout
    /\ \A i \in 1 .. posted[1].vertexCount : \A k \in 1 .. 3 :
         posted[1].splatData[i][k] = arg[1].recs[i].pos[k]

\* -------------------------------------------------------------------- C23
\* The fields of a 16-bit half pattern.
HalfSign(h) == h \div (2 ^ 15)
HalfExp(h) == (h \div (2 ^ 10)) % 32
HalfFrac(h) == h % (2 ^ 10)

\* The float32 pattern f is finite with magnitude at most 65504.
SpecAtMostHalfMax(f) == f.exp < 142 \/ (f.exp = 142 /\ f.frac <= 8380416)

\* The number of units 2^-24 in the magnitude of f, for f below 2^-14.
SpecHalfSubnormal(f) ==
  IF f.exp = 0 \/ 126 - f.exp > 30 THEN 0
  ELSE (2 ^ 23 + f.frac) \div (2 ^ (126 - f.exp))

\* h is the half pattern of the float32 pattern f by the rules of the
\* half encoding.
SpecHalfOf(f, h) ==
  /\ HalfSign(h) = f.sign
  /\ (f.exp >= 113 /\ SpecAtMostHalfMax(f)) =>
       (HalfExp(h) = f.exp - 112 /\ HalfFrac(h) = f.frac \div (2 ^ 13))
  /\ f.exp < 113 => (HalfExp(h) = 0 /\ HalfFrac(h) = SpecHalfSubnormal(f))
  /\ (HalfExp(h) = 31 /\ HalfFrac(h) = 0) => ~SpecAtMostHalfMax(f)

\* C23: floatToHalf gives the half pattern of its float32 argument (sign
\* kept; exponent exp - 112 and the top 10 fraction bits in the half normal
\* range; the half subnormal, or signed zero, below it; infinity only above
\* 65504), and packHalf2x16(x, y) has half(x) in its low and half(y) in its
\* high 16 bits.
C23_HalfStandard ==
  result # <<>> =>
    /\ SpecHalfOf(arg[1], result[2])
    /\ SpecHalfOf(arg[2], result[1])

\* -------------------------------------------------------------------- C24
\* C24: whenever the scheduler is in the running state it is later idle
\* again, whatever buffer a load-canonical message brought.
C24_ReturnsToIdle == sortRunning ~> ~sortRunning

\* -------------------------------------------------------------------- C25
\* The runSort call of the last step ran to the end after seeing a vertex
\* count other than lastVertexCount.
ChangedCountRun ==
  /\ calls # <<>>
  /\ calls[1].outcome = "sorted"
  /\ calls[1].lastVC # calls[1].vc

\* C25: a sort run that observes a changed vertex count posts payload-ready
\* and then depth-ready, both with that vertex count; and every depth-ready
\* carries the vertex count of the payload-ready posted last before it.
C25_PayloadBeforeDepth ==
  /\ ChangedCountRun =>
        /\ Len(posted) = 2
        /\ posted[1].type = "splat" /\ posted[2].type = "depth"
        /\ posted[1].vertexCount = calls[1].vc
        /\ posted[2].vertexCount = calls[1].vc
  /\ \A k \in DOMAIN posted :
        posted[k].type = "depth" =>
          /\ \A j \in DOMAIN posted : posted[j].type = "splat" => j < k
          /\ lastSplat.vertexCount = posted[k].vertexCount

\* A run that replaced an earlier payload.
C25_Witness == ChangedCountRun /\ calls[1].lastVC > 0 /\ Len(posted) = 2

\* -------------------------------------------------------------------- C26
\* A view-update of 16 entries arrives while the scheduler is idle and the
\* source buffer holds vertexCount whole rows.
IdleViewStep ==
  /\ inbound'.type = "view"
  /\ viewProj'.len >= MinProjLen
  /\ ~sortRunning
  /\ vertexCount > 0
  /\ sourceBuffer.byteLength % 4 = 0
  /\ vertexCount <= Rows(sourceBuffer)

\* C26: after such a view-update the last payload-ready and the last
\* depth-ready were built from the current source buffer, whatever was
\* loaded before it.
C26_NewBufferShown ==
  [][IdleViewStep =>
       /\ lastSplat'.src = sourceBuffer
       /\ lastDepth'.src = sourceBuffer]_vars

\* -------------------------------------------------------------------- C27
\* C27: a decode-file message whose conversion throws leaves sourceBuffer
\* and vertexCount as they were before the message.
C27_FailedDecodeKeepsData ==
  [][(inbound'.type = "ply" /\ raised' # "none") =>
       /\ sourceBuffer' = sourceBuffer
       /\ vertexCount' = vertexCount]_vars

\* -------------------------------------------------------------------- C29
\* A message telling the main side that there are no vertices.
ReflectsZeroVertices(msg) ==
  msg.type \in {"splat", "depth"} /\ msg.vertexCount = 0

\* C29: the decode-file handler calls runSort with vertexCount 0 and, when
\* it posts canonical-ready, has posted a message reflecting zero vertices
\* before it.
C29_EmptyPayloadAnnounced ==
  DecodeStep =>
    /\ calls # <<>> /\ calls[1].by = "ply" /\ calls[1].vc = 0
    /\ \A k \in DOMAIN posted :
          posted[k].type = "buffer" =>
            \E j \in 1 .. k - 1 : ReflectsZeroVertices(posted[j])

\* -------------------------------------------------------------------- C28
\* C28: what render draws is consistent: the first instanceCount words of
\* the sorted-index buffer are a permutation of 0 .. instanceCount - 1 and
\* were sorted for the payload that is uploaded.
C28_DrawConsistent ==
  drawn.instanceCount > 0 =>
    /\ {drawn.indices[i] : i \in 0 .. drawn.instanceCount - 1}
         = 0 .. drawn.instanceCount - 1
    /\ drawn.indexFor = drawn.splat

\* -------------------------------------------------------------------- C30
\* The chunks read, laid end to end.
RECURSIVE SpecOffset(_, _)
SpecOffset(chunks, k) ==
  IF k <= 1 THEN 0 ELSE SpecOffset(chunks, k - 1) + chunks[k - 1]

SpecConcatenation(chunks) ==
  [k \in 1 .. Len(chunks) |->
     [at |-> SpecOffset(chunks, k), chunk |-> k, len |-> chunks[k]]]

\* C30: streamSplat never stops with an error; bytesRead does not decrease
\* from one update to the next; an update with done = true is the last one,
\* its buffer has bytesRead bytes and its vertexCount is bytesRead div 32;
\* and when streamSplat has returned, such an update was made and the bytes
\* returned are the chunks in arrival order.
C30_StreamIntact ==
  /\ loader.pc # "threw"
  /\ \A i, j \in DOMAIN updates :
        i < j => updates[i].bytesRead <= updates[j].bytesRead
  /\ \A i \in DOMAIN updates :
        updates[i].done =>
          /\ i = Len(updates)
          /\ updates[i].byteLength = updates[i].bytesRead
          /\ updates[i].vertexCount = updates[i].bytesRead \div ROW_BYTES
  /\ loader.pc = "returned" =>
        /\ updates # <<>> /\ updates[Len(updates)].done
        /\ loader.returned = SpecConcatenation(loader.chunks)

====
